---- MODULE Spec2Model ----
(***************************************************************************)
(* Model of the auto-configuration core of anava-gcp-module.               *)
(*                                                                         *)
(* HealthMonitor (src/auto-config/health_monitor.py): a registry of        *)
(* health checks, one asyncio loop task per check, fire-and-forget         *)
(* recovery tasks guarded by the recovery_in_progress dict, the alert      *)
(* queue with its drain loop, and the aggregate get_health_status().       *)
(*                                                                         *)
(* The same module models the alert dispatch and the metrics loop of the   *)
(* monitor, CameraDiscovery (src/auto-config/camera_discovery.py) and the  *)
(* endpoint selection of WebSocketConfigurator                             *)
(* (src/auto-config/websocket_configurator.py), each under a               *)
(* specification of its own; so are the endpoint negotiation, the          *)
(* CertificateManager (src/auto-config/certificate_manager.py) and the     *)
(* run() of AutoConfigOrchestrator                                         *)
(* (src/auto-config/auto_config_orchestrator.py).                          *)
(*                                                                         *)
(* Further specifications take single functions and tasks: the Digest      *)
(* header of the discovery, the coroutines sharing the event loop, the     *)
(* health-check loops as tasks under fair scheduling, the system-resources *)
(* check, and the validation of endpoint candidates with the file it       *)
(* leaves to the endpoint-health check.                                    *)
(*                                                                         *)
(* asyncio runs one task at a time and switches tasks only at an await,    *)
(* so every action below is one await-free segment of a coroutine.  The    *)
(* order in which ready tasks are resumed is left to the scheduler.        *)
(***************************************************************************)
EXTENDS Naturals, Integers, Sequences, FiniteSets, TLC

\* ------------------------------------------------------------------ bounds

\* One check's loop is followed without limit; the loops of the other
\* registered checks together get at most this many iterations in between
\* (the checks share only the alert queue and the recovery_in_progress dict,
\* both keyed by check name).
MaxOtherRuns == 0

\* consecutive_failures is explored up to this value.
MaxFailures == 4

\* At most this many created-but-not-yet-run _perform_recovery tasks per check.
MaxPending == 2

\* Longest registry drawn for the aggregate-status specification.
MaxRegistered == 3

\* Alerts queued in a run of the alert-dispatch specification.
MaxAlerts == 12

\* The metrics loop is followed until the clock shows this many ticks; a tick
\* is the 30 seconds the loop sleeps.
MaxClock == 10

\* The window of timedelta(hours=1), scaled down to this many ticks.
HourTicks == 4

\* asyncio.sleep(30) returns after one tick, or later when the event loop is
\* busy: after at most this many ticks.
MaxSleep == 2

\* Addresses on the network of the discovery specification.
MaxIPs == 2

\* Largest number of host addresses of a scanned network.
MaxHosts == 52

\* Longest list handed to find_optimal_endpoint.
MaxEndpoints == 3

\* Latencies are drawn from 0..MaxLatency.
MaxLatency == 2

\* Validity dates and the time of a scan are drawn from 0..MaxDay.
MaxDay == 2

\* Calls of create_ca_bundle after a scan.
MaxBuilds == 2

\* Rounds of the orchestrator's status loop.
MaxRounds == 2

\* ------------------------------------------------------------ HealthStatus

HEALTHY == "healthy"

DEGRADED == "degraded"

UNHEALTHY == "unhealthy"

CRITICAL == "critical"

UNKNOWN == "unknown"

HealthStatus == {HEALTHY, DEGRADED, UNHEALTHY, CRITICAL, UNKNOWN}

\* ------------------------------------------------- the registered checks

\* _setup_health_checks: the six built-in checks in registration order.
BuiltinChecks ==
    << "system_resources", "camera_connectivity", "websocket_health",
       "pwa_config_service", "certificate_validity", "network_health" >>

CheckNames == { BuiltinChecks[i] : i \in DOMAIN BuiltinChecks }

\* HealthCheck.retries default; no built-in check overrides it.
Retries == 3

\* HasRecoveryFn with a recovery function given to every check.
HasRecoveryFnAll(c) == TRUE

\* recovery_fn is given for four of the six checks.
HasRecoveryFn(c) ==
    c \in { "system_resources", "camera_connectivity", "websocket_health",
            "pwa_config_service" }

\* The statuses each check function can return.
CheckReturns(c) ==
    CASE c = "system_resources"     -> {HEALTHY, DEGRADED, CRITICAL}
      [] c = "camera_connectivity"  -> {HEALTHY, DEGRADED, UNHEALTHY, CRITICAL, UNKNOWN}
      [] c = "websocket_health"     -> {HEALTHY, DEGRADED, UNHEALTHY, UNKNOWN}
      [] c = "pwa_config_service"   -> {HEALTHY, UNHEALTHY}
      [] c = "certificate_validity" -> {HEALTHY, DEGRADED, UNHEALTHY, UNKNOWN}
      [] c = "network_health"       -> {HEALTHY, DEGRADED, UNHEALTHY, UNKNOWN}

\* Check functions that await network I/O and so can exceed check.timeout.
CanTimeout(c) == c \in {"camera_connectivity", "pwa_config_service"}

\* Check functions with code outside any try block, so that they can raise.
CanRaise(c) == c = "system_resources"

\* What awaiting check.check_fn() under wait_for can come to.
Outcomes(c) ==
    CheckReturns(c)
        \cup (IF CanTimeout(c) THEN {"timeout"} ELSE {})
        \cup (IF CanRaise(c) THEN {"raise"} ELSE {})

\* What awaiting check.recovery_fn(check) can come to.
RecoveryOutcomes == {"true", "false", "raise"}

\* ------------------------------------------------------------------- state

VARIABLES
    registry,             \* key order of the dict health_checks
    health_checks,        \* name -> the mutable fields of the HealthCheck
    monitoring,           \* HealthMonitor.monitoring
    recovery_in_progress, \* the dict: a function from some names to BOOLEAN
    pending,              \* name -> created _perform_recovery tasks not yet run
    running,              \* name -> alerts held by tasks awaiting recovery_fn
    alerts,               \* HealthMonitor.alerts
    alert_seq,            \* number of alert dicts created so far (their identity)
    hist,                 \* name -> counters of what has happened (history)
    report,               \* what the last call of get_health_status() returned
    followed,             \* the check whose loop the scheduler favours
    other_runs,           \* iterations made by the loops of the other checks
    config_alerts,        \* what the loaded config holds under 'alerts'
    alerts_to_send,       \* the rest of the batch the alert loop is sending
    sent,                 \* ids of the alerts handed to _send_alert, in order
    posting,              \* the alert loop awaits a webhook post
    post_errors,          \* number of webhook posts that failed
    clock,                \* datetime.utcnow(), in ticks
    metrics_history,      \* HealthMonitor.metrics_history (the timestamps)
    last_sample,          \* what the last metrics iteration did (history)
    disc_pc,              \* where discover_cameras stands
    network_range,        \* the argument of the current or last call
    results,              \* what the first gather holds, per probe that ended
    raised_probes,        \* the probes of the last gather that raised (history)
    discovered_ips,       \* the local set of candidate addresses
    device_info,          \* what _get_device_info came to, per candidate
    cameras,              \* the list the last call returned (as a set)
    discovered_cameras,   \* CameraDiscovery.discovered_cameras
    latest,               \* ip -> the Device of its last successful probe (history)
    scan,                 \* _network_scan and the probing of what it found
    endpoints,            \* the argument of find_optimal_endpoint
    selected,             \* what find_optimal_endpoint returned
    relisted,             \* the same endpoints listed in another order
    negotiation,          \* auto_configure_camera_websockets and its devices
    parsed,               \* a certificate, its host, and what parsing made of it
    cert_dir,             \* the certificate directory's files, as it lists them
    cert_scan,            \* scan_camera_certificates: cameras done, cert_info
    bundle,               \* the calls of create_ca_bundle made so far (history)
    orch,                 \* AutoConfigOrchestrator: fields, where run() stands
    digest,               \* a Digest challenge and the header made for it
    units,                \* the event loop: who holds it, where each unit is
    resources,            \* cpu, memory and disk usage, and the check's result
    ws,                   \* WebSocketConfigurator: candidates, endpoints, file
    check_loops           \* the _run_health_check_loop tasks: where each stands

\* The fields of the alert dispatch.
dispatch_vars == << config_alerts, alerts_to_send, sent, posting, post_errors >>

\* The fields of the metrics loop.
metrics_vars == << clock, metrics_history, last_sample >>

\* The fields of a CameraDiscovery and of its discover_cameras call.
discovery_vars ==
    << disc_pc, network_range, results, raised_probes, discovered_ips,
       device_info, cameras, discovered_cameras, latest >>

\* The fields of a WebSocketConfigurator selection.
selection_vars == << endpoints, selected >>

\* The fields of a CertificateManager and of its calls.
cert_vars == << cert_dir, cert_scan, bundle >>

\* What the single functions studied on their own work on.
further_vars == << digest, units, resources, ws, check_loops >>

\* The fields of the endpoint negotiation and of the certificate scan.
configure_vars == << relisted, negotiation, parsed, cert_vars >>

\* The fields of the components the orchestrator runs after the discovery,
\* and its own.
later_vars == << configure_vars, orch, further_vars >>

\* What the health checks, the recoveries and get_health_status leave alone.
beside_checks ==
    << dispatch_vars, metrics_vars, discovery_vars, scan, selection_vars,
       later_vars >>

\* The monitor's fields that only checks and recoveries write.
check_vars ==
    << registry, health_checks, recovery_in_progress, pending, running, hist,
       report, followed, other_runs >>

\* The fields of the monitor, the discovery and the selection.
early_vars ==
    << monitoring, alerts, alert_seq, check_vars, dispatch_vars, metrics_vars,
       discovery_vars, scan, selection_vars, further_vars >>

\* The fields of the monitor, the discovery, the selection, the negotiation,
\* the certificates and the orchestrator.
component_vars ==
    << monitoring, alerts, alert_seq, check_vars, dispatch_vars, metrics_vars,
       discovery_vars, scan, selection_vars, configure_vars, orch >>

vars ==
    << registry, health_checks, monitoring, recovery_in_progress, pending,
       running, alerts, alert_seq, hist, report, followed, other_runs,
       dispatch_vars, metrics_vars, discovery_vars, scan, selection_vars,
       later_vars >>

Registered == { registry[i] : i \in DOMAIN registry }

\* A HealthCheck as the dataclass defaults leave it.
NewCheck ==
    [ last_check |-> "None", last_status |-> UNKNOWN,
      consecutive_failures |-> 0, error_message |-> "" ]

\* History counters of a check: recovery tasks created (spawned), of them
\* those created while an earlier one had not run yet (overlapped), calls of
\* recovery_fn, calls that returned, calls that raised, alerts appended to
\* the queue, and non-HEALTHY results since the last HEALTHY one.
NoHistory ==
    [ spawned |-> 0, overlapped |-> 0, calls |-> 0, returned |-> 0,
      raised |-> 0, appended |-> 0, since_healthy |-> 0 ]

\* No call of get_health_status() has returned yet.
NoReport ==
    [ overall_status |-> "none", checks |-> << >>, alerts_pending |-> 0,
      recovery_in_progress |-> {} ]

\* The fields every specification starts from, given the registry.
Constructed(reg) ==
    /\ registry = reg
    /\ monitoring = FALSE
    /\ recovery_in_progress = [c \in {} |-> TRUE]
    /\ pending = [c \in { reg[i] : i \in DOMAIN reg } |-> 0]
    /\ running = [c \in { reg[i] : i \in DOMAIN reg } |-> {}]
    /\ alerts = << >>
    /\ alert_seq = 0
    /\ hist = [c \in { reg[i] : i \in DOMAIN reg } |-> NoHistory]
    /\ report = NoReport
    /\ other_runs = 0

\* _load_config: what self.config holds under 'alerts'. The file is taken as
\* it is, so the section can be missing; the built-in default, used when
\* there is no file, has webhook None.
AlertConfigs == {"missing", "None", "url"}

\* No metrics iteration has run yet.
NoSample ==
    [ appended |-> FALSE, timestamp |-> 0, now |-> 0, dropped |-> 0 ]

\* HealthMonitor.__init__ for the alert dispatch and the metrics loop, given
\* the loaded config.
LoopsNew(cfg) ==
    /\ config_alerts = cfg
    /\ alerts_to_send = << >>
    /\ sent = << >>
    /\ posting = FALSE
    /\ post_errors = 0
    /\ clock = 0
    /\ metrics_history = << >>
    /\ last_sample = NoSample

\* The addresses of the network.
IPs == 1..MaxIPs

\* An empty dict keyed by address, and the empty list of gather results.
NoDevices == [ip \in {} |-> "None"]

NoResults == [p \in {} |-> "None"]

\* CameraDiscovery.__init__
DiscoveryNew ==
    /\ disc_pc = "new"
    /\ network_range = "None"
    /\ results = NoResults
    /\ raised_probes = {}
    /\ discovered_ips = {}
    /\ device_info = NoDevices
    /\ cameras = {}
    /\ discovered_cameras = NoDevices
    /\ latest = NoDevices

\* _network_scan about to start on a network of n host addresses.
ScanNew(n) ==
    [ hosts |-> n, phase |-> "scan", started |-> 0, done |-> 0, found |-> 0,
      probed |-> 0, checks |-> [h \in 1..n |-> 0] ]

\* find_optimal_endpoint about to be called on a list.
SelectionNew(eps) ==
    /\ endpoints = eps
    /\ selected = [ called |-> FALSE, result |-> << >> ]

\* No second listing of the endpoints.
RelistedNew(eps) == relisted = [ endpoints |-> eps, called |-> FALSE, result |-> << >> ]

\* auto_configure_camera_websockets about to be called on a list of devices:
\* nothing configured yet.
NegotiationNew(devices) ==
    [ cameras |-> devices, configured |-> 0,
      camera_configs |-> [ip \in {} |-> "None"] ]

\* The names a host is reached by or a certificate is made out to.
Names == {"h1", "h2"}

\* A certificate that was never presented.
NoCertificate ==
    [ subject |-> "h1", issuer |-> "h1", not_before |-> 0, not_after |-> 0,
      san_names |-> {} ]

\* _parse_certificate about to be called at time now on the certificate the
\* host presented.
ParsedNew(cert, host, now) ==
    [ cert |-> cert, host |-> host, now |-> now, called |-> FALSE,
      is_self_signed |-> FALSE, is_valid |-> FALSE, validation_errors |-> << >> ]

\* scan_camera_certificates about to be called on n cameras.
CertScanNew(n) ==
    [ cameras |-> n, scanned |-> 0, cert_info |-> [ip \in {} |-> "None"] ]

\* create_ca_bundle has not been called.
NoBundle ==
    [ builds |-> 0, include_self_signed |-> FALSE, previous |-> << >>,
      previous_include |-> FALSE ]

\* CertificateManager.__init__ on a directory it creates.
CertificatesNew ==
    /\ cert_dir = << >>
    /\ cert_scan = CertScanNew(0)
    /\ bundle = NoBundle

\* AutoConfigOrchestrator.__init__: run() not called, no components, and
\* nothing done yet (log lists what has been done, in order).
OrchestratorNew ==
    [ pc |-> "new", running |-> FALSE, signalled |-> FALSE,
      components |-> FALSE, cameras |-> 0, log |-> << >>, rounds |-> 0,
      failed |-> "none", save_failed |-> FALSE, outcome |-> "none" ]

\* A Digest challenge: the parameters of the WWW-Authenticate header, an
\* absent one given as "".
NoChallenge == [ realm |-> "", nonce |-> "", uri |-> "", qop |-> "" ]

\* _create_digest_auth about to be called for a request of request_uri,
\* which was answered 401 with the challenge.
DigestNew(user, challenge, request_uri) ==
    [ username |-> user.username, password |-> user.password,
      challenge |-> challenge, request_uri |-> request_uri, called |-> FALSE,
      uri |-> "", qop |-> "", nc |-> "", cnonce |-> [ md5 |-> << >> ],
      response |-> [ md5 |-> << >> ] ]

\* The event loop before any unit has been started: nobody runs on it.
UnitsNew ==
    [ holder |-> "none",
      pc |-> [ u \in {"upnp", "bonjour", "adp", "certificate", "health_check"}
                 |-> "ready" ],
      turns |-> 0 ]

\* What psutil reports, before _check_system_resources has looked at it.
ResourcesNew(cpu, memory, disk) ==
    [ cpu_percent |-> cpu, memory_percent |-> memory, disk_percent |-> disk,
      status |-> "none" ]

\* WebSocketConfigurator.__init__, about to configure n cameras; no file of
\* websocket_config.json exists yet.
ConfiguratorNew(n) ==
    [ pc |-> IF n = 0 THEN "configured" ELSE "validating",
      cameras |-> n, camera |-> 1, path |-> 1,
      last |-> [ outcome |-> "none", validated |-> FALSE, error |-> "None" ],
      endpoints |-> << >>, discovered_endpoints |-> << >>,
      file |-> [ written |-> FALSE, endpoints |-> << >> ],
      status |-> "none" ]

\* The loop tasks start_monitoring creates, one per check: each is about to
\* test self.monitoring and run its check; no check function has been
\* awaited yet.
CheckLoopsNew(names) ==
    [ pc |-> [c \in names |-> "check"], outcome |-> [c \in names |-> "none"] ]

\* The single functions before their call.
FurtherNew ==
    /\ digest = DigestNew([ username |-> "root", password |-> "admin" ],
                          NoChallenge, "/")
    /\ units = UnitsNew
    /\ resources = ResourcesNew(0, 0, 0)
    /\ ws = ConfiguratorNew(0)
    /\ check_loops = CheckLoopsNew(CheckNames)

\* The later components as their constructors leave them.
LaterNew ==
    /\ RelistedNew(<< >>)
    /\ negotiation = NegotiationNew(<< >>)
    /\ parsed = ParsedNew(NoCertificate, "h1", 0)
    /\ CertificatesNew
    /\ orch = OrchestratorNew
    /\ FurtherNew

\* The default monitor, not started.
MonitorNew ==
    /\ Constructed(BuiltinChecks)
    /\ health_checks = [c \in CheckNames |-> NewCheck]

\* HealthMonitor.__init__: the default registry, nothing running yet.
Init ==
    /\ Constructed(BuiltinChecks)
    /\ health_checks = [c \in CheckNames |-> NewCheck]
    /\ followed \in CheckNames
    /\ LoopsNew("None")
    /\ DiscoveryNew
    /\ scan = ScanNew(0)
    /\ SelectionNew(<< >>)
    /\ LaterNew

\* -------------------------------------------------------- start_monitoring

\* start_monitoring: sets the flag and creates one loop task per check and
\* the alert loop task.
StartMonitoring ==
    /\ ~monitoring
    /\ monitoring' = TRUE
    /\ UNCHANGED << registry, health_checks, recovery_in_progress, pending,
                    running, alerts, alert_seq, hist, report, followed, other_runs >>
    /\ UNCHANGED beside_checks

\* ------------------------------------------------- the health-check loops

\* The scheduler resumes the loop of check c.
CanSchedule(c) == c = followed \/ other_runs < MaxOtherRuns

\* Classify with a failed check function left unclassified.
ClassifyFailureUnknown(outcome) ==
    IF outcome \in {"timeout", "raise"} THEN UNKNOWN ELSE outcome

\* _run_health_check: the status it returns for an outcome of check_fn.
Classify(outcome) ==
    IF outcome \in {"timeout", "raise"} THEN UNHEALTHY ELSE outcome

\* CheckError with the message of a failed check function dropped.
CheckErrorKept(outcome, old) == old

\* _run_health_check: the error_message it leaves for an outcome of check_fn.
CheckError(outcome, old) ==
    CASE outcome = "timeout" -> "Health check timed out"
      [] outcome = "raise"   -> "exception"
      [] OTHER               -> old

\* NextFailures with an UNKNOWN result not counted as a failure.
NextFailuresSkipUnknown(status, failures) ==
    CASE status = HEALTHY -> 0
      [] status = UNKNOWN -> failures
      [] OTHER            -> failures + 1

\* The loop's update of consecutive_failures for a status.
NextFailures(status, failures) ==
    IF status # HEALTHY THEN failures + 1 ELSE 0

\* The loop's update of error_message for a status.
NextError(status, message) ==
    IF status # HEALTHY THEN message ELSE ""

\* The name is a key of recovery_in_progress (`check.name in ...`).
InProgressKey(c) == c \in DOMAIN recovery_in_progress

\* TriggerRecovery without the comparison against retries.
TriggerRecoveryAnyFailure(c, failures) ==
    /\ HasRecoveryFn(c)
    /\ ~InProgressKey(c)

\* The loop's condition for creating a recovery task.
TriggerRecovery(c, failures) ==
    /\ HasRecoveryFn(c)
    /\ failures >= Retries
    /\ ~InProgressKey(c)

\* One iteration of _run_health_check_loop: the check is run and classified,
\* the HealthCheck updated and a recovery task created if the trigger holds.
RunHealthCheckLoop(c) ==
    /\ monitoring
    /\ CanSchedule(c)
    /\ \E outcome \in Outcomes(c) :
        LET old == health_checks[c]
            status == Classify(outcome)
            failures == NextFailures(status, old.consecutive_failures)
            spawn == status # HEALTHY /\ TriggerRecovery(c, failures)
        IN  /\ failures <= MaxFailures
            /\ spawn => pending[c] < MaxPending
            /\ health_checks' =
                 [health_checks EXCEPT ![c] =
                    [ last_check |-> "set",
                      last_status |-> status,
                      consecutive_failures |-> failures,
                      error_message |->
                          NextError(status, CheckError(outcome, old.error_message)) ]]
            /\ pending' =
                 [pending EXCEPT ![c] = IF spawn THEN @ + 1 ELSE @]
            /\ hist' =
                 [hist EXCEPT
                    ![c].spawned = IF spawn THEN @ + 1 ELSE @,
                    ![c].overlapped =
                        IF spawn /\ pending[c] > 0 THEN @ + 1 ELSE @,
                    ![c].since_healthy = IF outcome = HEALTHY THEN 0 ELSE @ + 1]
    /\ other_runs' = IF c = followed THEN other_runs ELSE other_runs + 1
    /\ UNCHANGED << registry, monitoring, recovery_in_progress, running,
                    alerts, alert_seq, report, followed >>
    /\ UNCHANGED beside_checks

\* ------------------------------------------------------- recovery tasks

\* The alert dict _perform_recovery builds; id stands for the object's identity.
NewAlert(id, c) ==
    [ id |-> id, check_name |-> c,
      action |-> "recovery_started" ]

\* AlreadyRecovering without the entry test.
AlreadyRecoveringUntested(c) == FALSE

\* _perform_recovery's entry test: true makes the task return at once.
AlreadyRecovering(c) == InProgressKey(c)

\* recovery_in_progress[name] = value
SetInProgress(c, value) ==
    [ k \in DOMAIN recovery_in_progress \cup {c} |->
        IF k = c THEN value ELSE recovery_in_progress[k] ]

\* A created _perform_recovery task runs from its start to the await of
\* recovery_fn, or returns at its entry test.
RecoveryStart(c) ==
    /\ pending[c] > 0
    /\ pending' = [pending EXCEPT ![c] = @ - 1]
    /\ IF AlreadyRecovering(c)
       THEN UNCHANGED << recovery_in_progress, alerts, alert_seq, running, hist >>
       ELSE /\ recovery_in_progress' = SetInProgress(c, TRUE)
            /\ alert_seq' = alert_seq + 1
            /\ alerts' = Append(alerts, NewAlert(alert_seq + 1, c))
            /\ running' = [running EXCEPT ![c] = @ \cup {alert_seq + 1}]
            /\ hist' = [hist EXCEPT ![c].calls = @ + 1, ![c].appended = @ + 1]
    /\ UNCHANGED << registry, health_checks, monitoring, report, followed,
                    other_runs >>
    /\ UNCHANGED beside_checks

\* What _perform_recovery assigns to alert['action'] when recovery_fn has
\* come to an outcome.
CompletionAction(outcome, old) ==
    CASE outcome = "true"  -> "recovery_succeeded"
      [] outcome = "false" -> "recovery_failed"
      [] OTHER             -> old

\* The assignment reaches the dict the task holds, if the queue still
\* references it.
SetAction(queue, id, outcome) ==
    [ i \in DOMAIN queue |->
        IF queue[i].id = id
        THEN [queue[i] EXCEPT !.action = CompletionAction(outcome, @)]
        ELSE queue[i] ]

\* The finally clause of _perform_recovery.
FinallyInProgress(c) == SetInProgress(c, FALSE)

\* _perform_recovery from the return (or raise) of recovery_fn to its end.
RecoveryFinish(c) ==
    /\ \E id \in running[c], outcome \in RecoveryOutcomes :
        /\ running' = [running EXCEPT ![c] = @ \ {id}]
        /\ alerts' = SetAction(alerts, id, outcome)
        /\ hist' =
             [hist EXCEPT
                ![c].returned = IF outcome = "raise" THEN @ ELSE @ + 1,
                ![c].raised = IF outcome = "raise" THEN @ + 1 ELSE @]
    /\ recovery_in_progress' = FinallyInProgress(c)
    /\ UNCHANGED << registry, health_checks, monitoring, pending, alert_seq,
                    report, followed, other_runs >>
    /\ UNCHANGED beside_checks

\* ----------------------------------------------------------- alert loop

\* alerts[:10] and alerts[10:]
AlertBatch == 10

Take(queue, n) ==
    SubSeq(queue, 1, IF Len(queue) < n THEN Len(queue) ELSE n)

Drop(queue, n) ==
    SubSeq(queue, (IF Len(queue) < n THEN Len(queue) ELSE n) + 1, Len(queue))

\* _process_alerts_loop, one iteration with alerts queued: the batch is cut
\* off the queue and each alert of it handed to _send_alert.
ProcessAlerts ==
    /\ monitoring
    /\ alerts # << >>
    /\ alerts' = Drop(alerts, AlertBatch)
    /\ UNCHANGED << registry, health_checks, monitoring, recovery_in_progress,
                    pending, running, alert_seq, hist, report, followed, other_runs >>
    /\ UNCHANGED beside_checks

\* ------------------------------------------------------ get_health_status

\* Fold with DEGRADED taken whenever the status so far is not CRITICAL.
FoldDegradedOverrides(overall, status) ==
    CASE status = CRITICAL -> CRITICAL
      [] status = UNHEALTHY /\ overall # CRITICAL -> UNHEALTHY
      [] status = DEGRADED /\ overall # CRITICAL -> DEGRADED
      [] OTHER -> overall

\* One step of the loop over health_checks.items() on overall_status.
Fold(overall, status) ==
    CASE status = CRITICAL -> CRITICAL
      [] status = UNHEALTHY /\ overall # CRITICAL -> UNHEALTHY
      [] status = DEGRADED /\ overall = HEALTHY -> DEGRADED
      [] OTHER -> overall

RECURSIVE OverallStatus(_)
\* overall_status after the checks registry[1..n], in dict order.
OverallStatus(n) ==
    IF n = 0 THEN HEALTHY
    ELSE Fold(OverallStatus(n - 1), health_checks[registry[n]].last_status)

\* list(self.recovery_in_progress.keys())
RecoveryKeys == DOMAIN recovery_in_progress

\* The dict get_health_status returns (metrics left out).
GetHealthStatus ==
    [ overall_status |-> OverallStatus(Len(registry)),
      checks |-> [i \in DOMAIN registry |-> health_checks[registry[i]].last_status],
      alerts_pending |-> Len(alerts),
      recovery_in_progress |-> RecoveryKeys ]

\* ------------------------------------------------------- specifications

Next ==
    \/ StartMonitoring
    \/ \E c \in Registered : RunHealthCheckLoop(c)
    \/ \E c \in Registered : RecoveryStart(c)
    \/ \E c \in Registered : RecoveryFinish(c)
    \/ ProcessAlerts

\* The monitor from its construction on.
Spec == Init /\ [][Next]_vars

\* Registries of up to MaxRegistered checks, in every order.
Registries ==
    { reg \in UNION { [1..n -> CheckNames] : n \in 0..MaxRegistered } :
        \A i, j \in DOMAIN reg : i # j => reg[i] # reg[j] }

\* A monitor whose registered checks have any statuses, in any order of
\* registration (add_health_check is open to callers).
InitStatus ==
    /\ \E reg \in Registries : Constructed(reg)
    /\ health_checks \in
         [ Registered ->
             { [NewCheck EXCEPT !.last_status = st] : st \in HealthStatus } ]
    /\ followed = "none"
    /\ LoopsNew("None")
    /\ DiscoveryNew
    /\ scan = ScanNew(0)
    /\ SelectionNew(<< >>)
    /\ LaterNew

\* A call of get_health_status().
StatusCall ==
    /\ report = NoReport
    /\ report' = GetHealthStatus
    /\ UNCHANGED << registry, health_checks, monitoring, recovery_in_progress,
                    pending, running, alerts, alert_seq, hist, followed,
                    other_runs >>
    /\ UNCHANGED beside_checks

NextStatus == StatusCall

\* get_health_status() applied to every registry within the bounds.
SpecStatus == InitStatus /\ [][NextStatus]_vars


\* ------------------------------------------------- the alert dispatch

\* The ids of a sequence of alerts.
Ids(queue) == [i \in DOMAIN queue |-> queue[i].id]

\* _perform_recovery appends its alert dict to self.alerts: any recovery of
\* a registered check, built in or added by add_health_check.
QueueAlert(c) ==
    /\ monitoring
    /\ alert_seq < MaxAlerts
    /\ alert_seq' = alert_seq + 1
    /\ alerts' = Append(alerts, NewAlert(alert_seq + 1, c))
    /\ UNCHANGED << monitoring, check_vars, dispatch_vars, metrics_vars,
                    discovery_vars, scan, selection_vars, later_vars >>

\* _process_alerts_loop, one iteration with alerts queued, up to its first
\* await that suspends. The batch is cut off the queue, then _send_alert is
\* awaited for each alert of it: it logs the alert and reads
\* self.config['alerts'] outside its try block. Without that section the
\* KeyError ends the for loop in the except clause of the alert loop; with
\* webhook None _send_alert does not suspend, so the whole batch is handed
\* over; with a webhook the task suspends in the post of the first alert.
AlertLoopCycle ==
    /\ monitoring
    /\ ~posting
    /\ alerts # << >>
    /\ LET batch == Take(alerts, AlertBatch)
       IN  /\ alerts' = Drop(alerts, AlertBatch)
           /\ CASE config_alerts = "missing" ->
                     /\ sent' = Append(sent, batch[1].id)
                     /\ alerts_to_send' = << >>
                     /\ posting' = FALSE
                [] config_alerts = "None" ->
                     /\ sent' = sent \o Ids(batch)
                     /\ alerts_to_send' = << >>
                     /\ posting' = FALSE
                [] OTHER ->
                     /\ sent' = Append(sent, batch[1].id)
                     /\ alerts_to_send' = Tail(batch)
                     /\ posting' = TRUE
    /\ UNCHANGED << monitoring, alert_seq, check_vars, config_alerts,
                    post_errors, metrics_vars, discovery_vars, scan,
                    selection_vars, later_vars >>

\* session.post returns or raises (the error is logged inside _send_alert);
\* the for loop goes on to the next alert of the batch, or the iteration
\* ends in the sleep.
PostDone(ok) ==
    /\ posting
    /\ post_errors' = IF ok THEN post_errors ELSE post_errors + 1
    /\ IF alerts_to_send = << >>
       THEN /\ posting' = FALSE
            /\ UNCHANGED << sent, alerts_to_send >>
       ELSE /\ sent' = Append(sent, Head(alerts_to_send).id)
            /\ alerts_to_send' = Tail(alerts_to_send)
            /\ posting' = TRUE
    /\ UNCHANGED << monitoring, alerts, alert_seq, check_vars, config_alerts,
                    metrics_vars, discovery_vars, scan, selection_vars, later_vars >>

\* A monitor with any of the configs, not started.
InitAlerts ==
    /\ MonitorNew
    /\ followed = "none"
    /\ \E cfg \in AlertConfigs : LoopsNew(cfg)
    /\ DiscoveryNew
    /\ scan = ScanNew(0)
    /\ SelectionNew(<< >>)
    /\ LaterNew

NextAlerts ==
    \/ StartMonitoring
    \/ QueueAlert("camera_connectivity")
    \/ AlertLoopCycle
    \/ \E ok \in BOOLEAN : PostDone(ok)

\* The alert loop is a task of the event loop: it is resumed when its sleep
\* or its post is over (aiohttp's default total timeout ends every post).
SpecAlertsFair ==
    /\ InitAlerts
    /\ [][NextAlerts]_vars
    /\ WF_vars(AlertLoopCycle)
    /\ WF_vars(\E ok \in BOOLEAN : PostDone(ok))

\* ---------------------------------------------------- the metrics loop

\* RetainedNewer without the comparison.
RetainedAll(history, cutoff_time) == history

\* [m for m in self.metrics_history if m.timestamp > cutoff_time]
RetainedNewer(history, cutoff_time) ==
    SelectSeq(history, LAMBDA m : m > cutoff_time)

\* _collect_metrics_loop, one iteration and its sleep. The timestamp is
\* taken first; the psutil calls block (cpu_percent(interval=1) for a
\* second), which may carry the clock into the next tick, and may raise,
\* which skips the append and the pruning.
CollectMetrics ==
    /\ monitoring
    /\ clock < MaxClock
    /\ \E raised \in BOOLEAN, blocked \in 0..1, slept \in 1..MaxSleep :
        LET now == clock + blocked
            appended == Append(metrics_history, clock)
            kept == RetainedNewer(appended, now - HourTicks)
        IN  /\ clock' = now + slept
            /\ IF raised
               THEN /\ UNCHANGED metrics_history
                    /\ last_sample' = [NoSample EXCEPT !.now = now]
               ELSE /\ metrics_history' = kept
                    /\ last_sample' =
                         [ appended |-> TRUE, timestamp |-> clock, now |-> now,
                           dropped |-> Len(appended) - Len(kept) ]
    /\ UNCHANGED << monitoring, alerts, alert_seq, check_vars, dispatch_vars,
                    discovery_vars, scan, selection_vars, later_vars >>

NextMetrics ==
    \/ StartMonitoring
    \/ CollectMetrics

\* The monitor with its metrics loop alone.
SpecMetrics == Init /\ [][NextMetrics]_vars

\* ----------------------------------------------------- discover_cameras

\* The arguments of discover_cameras: no range, a network in CIDR notation,
\* a string ipaddress.ip_network rejects.
Ranges == {"None", "192.168.1.0/24", "not-a-cidr"}

\* _upnp_discovery, _bonjour_discovery, _axis_discovery_protocol and, when a
\* range is given, _network_scan.
Probes(range) ==
    {"upnp", "bonjour", "adp"} \cup (IF range # "None" THEN {"scan"} ELSE {})

\* A probe that returned a set, and one that raised.
Returned(ips) == [ raised |-> FALSE, ips |-> ips ]

Raised == [ raised |-> TRUE, ips |-> {} ]

\* What gather(return_exceptions=True) holds for a probe. _upnp_discovery
\* and _axis_discovery_protocol create their socket outside their try block
\* and so can raise; _bonjour_discovery and _network_scan catch everything,
\* and _network_scan returns the empty set when ip_network raises.
ProbeOutcomes(p, range) ==
    CASE p \in {"upnp", "adp"} ->
            { Returned(ips) : ips \in SUBSET IPs } \cup {Raised}
      [] p = "scan" /\ range = "not-a-cidr" -> { Returned({}) }
      [] OTHER -> { Returned(ips) : ips \in SUBSET IPs }

\* discover_cameras is called: the probe coroutines are handed to gather.
DiscoverCall(range) ==
    /\ disc_pc \in {"new", "returned"}
    /\ disc_pc' = "gather"
    /\ network_range' = range
    /\ results' = NoResults
    /\ raised_probes' = {}
    /\ discovered_ips' = {}
    /\ device_info' = NoDevices
    /\ cameras' = {}
    /\ UNCHANGED << monitoring, alerts, alert_seq, check_vars, dispatch_vars,
                    metrics_vars, discovered_cameras, latest, scan,
                    selection_vars, later_vars >>

\* The task of one probe ends: gather keeps its set, or its exception.
ProbeReturns(p) ==
    /\ disc_pc = "gather"
    /\ p \in Probes(network_range) \ DOMAIN results
    /\ \E outcome \in ProbeOutcomes(p, network_range) :
        results' =
            [ q \in DOMAIN results \cup {p} |->
                IF q = p THEN outcome ELSE results[q] ]
    /\ UNCHANGED << monitoring, alerts, alert_seq, check_vars, dispatch_vars,
                    metrics_vars, disc_pc, network_range, raised_probes,
                    discovered_ips, device_info, cameras, discovered_cameras,
                    latest, scan, selection_vars, later_vars >>

\* Candidates with the result of the scan left out.
CandidatesButScan(res) ==
    UNION { res[p].ips : p \in { q \in DOMAIN res : ~res[q].raised } \ {"scan"} }

\* discovered_ips: the union of the results that are sets.
Candidates(res) ==
    UNION { res[p].ips : p \in { q \in DOMAIN res : ~res[q].raised } }

\* The first gather returns: the candidates are united and the
\* _probe_camera coroutines handed to the second gather. The results are
\* not read again; which probes raised is kept as history.
GatherReturns ==
    /\ disc_pc = "gather"
    /\ DOMAIN results = Probes(network_range)
    /\ discovered_ips' = Candidates(results)
    /\ raised_probes' = { p \in DOMAIN results : results[p].raised }
    /\ results' = NoResults
    /\ disc_pc' = "probing"
    /\ UNCHANGED << monitoring, alerts, alert_seq, check_vars, dispatch_vars,
                    metrics_vars, network_range, device_info, cameras,
                    discovered_cameras, latest, scan, selection_vars, later_vars >>

\* What _get_device_info comes to for a candidate: None when neither URL
\* answered 200, else the dict of _parse_device_info, whose 'model' is the
\* value of the response's model line, or the default 'unknown' when the
\* response has no such line.
InfoOutcomes == {"None", "unknown", "M3067"}

\* The AxisCamera built from a device info (the fields but ip all follow the
\* pattern of model).
Device(ip, model) == [ ip |-> ip, model |-> model ]

\* Upsert that keeps the entry an address already has.
UpsertIfAbsent(registered, devices) ==
    [ ip \in DOMAIN registered \cup { d.ip : d \in devices } |->
        IF ip \in DOMAIN registered
        THEN registered[ip]
        ELSE CHOOSE d \in devices : d.ip = ip ]

\* Upsert with the registry made anew from the cameras of this call.
UpsertLatestOnly(registered, devices) ==
    [ ip \in { d.ip : d \in devices } |-> CHOOSE d \in devices : d.ip = ip ]

\* self.discovered_cameras[camera.ip] = camera, for every camera found.
Upsert(registered, devices) ==
    [ ip \in DOMAIN registered \cup { d.ip : d \in devices } |->
        IF \E d \in devices : d.ip = ip
        THEN CHOOSE d \in devices : d.ip = ip
        ELSE registered[ip] ]

\* The second gather returns, with None or a camera from every
\* _probe_camera: the cameras are registered and the list is returned.
DiscoverReturn ==
    /\ disc_pc = "probing"
    /\ \E info \in [ discovered_ips -> InfoOutcomes ] :
        LET answered == { ip \in discovered_ips : info[ip] # "None" }
            found == { Device(ip, info[ip]) : ip \in answered }
        IN  /\ device_info' = info
            /\ cameras' = found
            /\ discovered_cameras' = Upsert(discovered_cameras, found)
            /\ latest' =
                 [ ip \in DOMAIN latest \cup answered |->
                     IF ip \in answered
                     THEN Device(ip, info[ip])
                     ELSE latest[ip] ]
    /\ disc_pc' = "returned"
    /\ discovered_ips' = {}
    /\ UNCHANGED << monitoring, alerts, alert_seq, check_vars, dispatch_vars,
                    metrics_vars, network_range, results, raised_probes, scan,
                    selection_vars, later_vars >>

\* save_discovered_cameras: the cameras it writes to the snapshot file,
\* self.discovered_cameras.values().
SavedCameras == { discovered_cameras[ip] : ip \in DOMAIN discovered_cameras }

\* A new CameraDiscovery beside an idle monitor.
InitDiscover ==
    /\ MonitorNew
    /\ followed = "none"
    /\ LoopsNew("None")
    /\ DiscoveryNew
    /\ scan = ScanNew(0)
    /\ SelectionNew(<< >>)
    /\ LaterNew

NextDiscover ==
    \/ \E range \in Ranges : DiscoverCall(range)
    \/ \E p \in {"upnp", "bonjour", "adp", "scan"} : ProbeReturns(p)
    \/ GatherReturns
    \/ DiscoverReturn

\* Calls of discover_cameras, one after the other.
SpecDiscover == InitDiscover /\ [][NextDiscover]_vars

\* ------------------------------------- _network_scan and the probing

\* chunk_size
ChunkSize == 50

\* ThreadPoolExecutor(max_workers=50): the executor is created and never used.
MaxWorkers == 50

\* ChunkEnd for a gather of all the coroutines at once.
ChunkEndWhole(i, n) == n

\* scan_tasks[i:i + chunk_size] ends at this index.
ChunkEnd(i, n) == IF i + ChunkSize < n THEN i + ChunkSize ELSE n

\* _network_scan: the next chunk of _check_axis_port coroutines is handed to
\* gather, once the gather of the chunk before has returned.
ScanChunk ==
    /\ scan.phase = "scan"
    /\ scan.done = scan.started
    /\ scan.started < scan.hosts
    /\ scan' =
         [scan EXCEPT
            !.started = ChunkEnd(scan.started, scan.hosts),
            !.checks =
                [h \in 1..scan.hosts |->
                    IF h > scan.started /\ h <= ChunkEnd(scan.started, scan.hosts)
                    THEN scan.checks[h] + 1
                    ELSE scan.checks[h]]]
    /\ UNCHANGED << monitoring, alerts, alert_seq, check_vars, dispatch_vars,
                    metrics_vars, discovery_vars, selection_vars, later_vars >>

\* One _check_axis_port of the chunk returns (ip, is_axis).
HostChecked(is_axis) ==
    /\ scan.phase = "scan"
    /\ scan.done < scan.started
    /\ scan' =
         [scan EXCEPT
            !.done = @ + 1,
            !.found = IF is_axis THEN @ + 1 ELSE @]
    /\ UNCHANGED << monitoring, alerts, alert_seq, check_vars, dispatch_vars,
                    metrics_vars, discovery_vars, selection_vars, later_vars >>

\* discover_cameras after the scan: one _probe_camera per address found,
\* all of them handed to a single gather.
ProbeAll ==
    /\ scan.phase = "scan"
    /\ scan.started = scan.hosts
    /\ scan.done = scan.hosts
    /\ scan' = [scan EXCEPT !.phase = "probe"]
    /\ UNCHANGED << monitoring, alerts, alert_seq, check_vars, dispatch_vars,
                    metrics_vars, discovery_vars, selection_vars, later_vars >>

\* One _probe_camera returns.
ProbeDone ==
    /\ scan.phase = "probe"
    /\ scan.probed < scan.found
    /\ scan' = [scan EXCEPT !.probed = @ + 1]
    /\ UNCHANGED << monitoring, alerts, alert_seq, check_vars, dispatch_vars,
                    metrics_vars, discovery_vars, selection_vars, later_vars >>

\* The scan of a network of any number of hosts up to MaxHosts.
InitScan ==
    /\ MonitorNew
    /\ followed = "none"
    /\ LoopsNew("None")
    /\ DiscoveryNew
    /\ \E n \in 0..MaxHosts : scan = ScanNew(n)
    /\ SelectionNew(<< >>)
    /\ LaterNew

NextScan ==
    \/ ScanChunk
    \/ \E is_axis \in BOOLEAN : HostChecked(is_axis)
    \/ ProbeAll
    \/ ProbeDone

SpecScan == InitScan /\ [][NextScan]_vars

\* ------------------------------------------------ find_optimal_endpoint

\* The two protocols discover_websocket_paths builds endpoints for.
Protocols == {"ws", "wss"}

\* The WebSocketConfig lists of up to MaxEndpoints endpoints; url numbers the
\* entries, latency is a whole number of time units.
EndpointLists ==
    UNION { { eps \in [ 1..n -> [ url : 1..MaxEndpoints, protocol : Protocols,
                                  validated : BOOLEAN, latency : 0..MaxLatency ] ] :
                \A i \in 1..n : eps[i].url = i } : n \in 0..MaxEndpoints }

\* [ep for ep in endpoints if ep.validated]
ValidEndpoints(eps) == SelectSeq(eps, LAMBDA ep : ep.validated)

RECURSIVE InsertByLatency(_, _)
\* ep put into a sorted list behind every entry that is not slower.
InsertByLatency(sorted, ep) ==
    IF sorted = << >> THEN << ep >>
    ELSE IF sorted[Len(sorted)].latency <= ep.latency
         THEN Append(sorted, ep)
         ELSE Append(InsertByLatency(SubSeq(sorted, 1, Len(sorted) - 1), ep),
                     sorted[Len(sorted)])

\* SortByLatency that leaves the list as it is.
Unsorted(eps) == eps

RECURSIVE SortByLatency(_)
\* valid_endpoints.sort(key=lambda x: x.latency): list.sort is stable.
SortByLatency(eps) ==
    IF eps = << >> THEN << >>
    ELSE InsertByLatency(SortByLatency(SubSeq(eps, 1, Len(eps) - 1)), eps[Len(eps)])

\* [ep for ep in valid_endpoints if ep.protocol == 'wss']
SecureEndpoints(eps) == SelectSeq(eps, LAMBDA ep : ep.protocol = "wss")

\* What find_optimal_endpoint returns: the empty sequence stands for None.
OptimalEndpoint(eps) ==
    LET valid_endpoints == SortByLatency(ValidEndpoints(eps))
        secure_endpoints == SecureEndpoints(valid_endpoints)
    IN  IF ValidEndpoints(eps) = << >> THEN << >>
        ELSE IF secure_endpoints # << >> THEN << secure_endpoints[1] >>
        ELSE << valid_endpoints[1] >>

\* A call of find_optimal_endpoint on the list.
FindOptimalEndpoint ==
    /\ ~selected.called
    /\ selected' = [ called |-> TRUE, result |-> OptimalEndpoint(endpoints) ]
    /\ UNCHANGED << monitoring, alerts, alert_seq, check_vars, dispatch_vars,
                    metrics_vars, discovery_vars, scan, endpoints, later_vars >>

\* Every list of endpoints within the bounds.
InitSelect ==
    /\ MonitorNew
    /\ followed = "none"
    /\ LoopsNew("None")
    /\ DiscoveryNew
    /\ scan = ScanNew(0)
    /\ \E eps \in EndpointLists : SelectionNew(eps)
    /\ LaterNew

NextSelect == FindOptimalEndpoint

\* find_optimal_endpoint applied to every list within the bounds.
SpecSelect == InitSelect /\ [][NextSelect]_vars

\* --------------------------------- find_optimal_endpoint on a relisting

\* The ways of listing n entries in another order.
Orders(n) == { p \in [1..n -> 1..n] : \A i, j \in 1..n : i # j => p[i] # p[j] }

\* The entries of eps listed in the order p.
Relist(eps, p) == [ i \in DOMAIN eps |-> eps[p[i]] ]

\* A call of find_optimal_endpoint on the other listing.
FindOptimalRelisted ==
    /\ ~relisted.called
    /\ relisted' = [ relisted EXCEPT !.called = TRUE,
                                     !.result = OptimalEndpoint(relisted.endpoints) ]
    /\ UNCHANGED << early_vars, negotiation, parsed, cert_vars, orch >>

\* Every list of endpoints within the bounds, and every other listing of it.
InitRelist ==
    /\ MonitorNew
    /\ followed = "none"
    /\ LoopsNew("None")
    /\ DiscoveryNew
    /\ scan = ScanNew(0)
    /\ \E eps \in EndpointLists :
         /\ SelectionNew(eps)
         /\ \E p \in Orders(Len(eps)) : RelistedNew(Relist(eps, p))
    /\ negotiation = NegotiationNew(<< >>)
    /\ parsed = ParsedNew(NoCertificate, "h1", 0)
    /\ CertificatesNew
    /\ orch = OrchestratorNew
    /\ FurtherNew

NextRelist ==
    \/ FindOptimalEndpoint
    \/ FindOptimalRelisted

\* find_optimal_endpoint applied to a list and to the same entries in another
\* order.
SpecRelist == InitRelist /\ [][NextRelist]_vars

\* ------------------------------------ auto_configure_camera_websockets

\* What a Device holds as websocket_url after its probe: None (the empty
\* sequence) or the url _discover_websocket_url found to connect.
WebsocketUrls == { << >> } \cup { << u >> : u \in 1..MaxEndpoints }

\* The lists of devices the discovery can hand over, one per address.
DeviceLists ==
    UNION { [ 1..n -> [ websocket_url : WebsocketUrls ] ] : n \in 0..MaxIPs }

\* What discover_websocket_paths returns: the endpoints that validated, the
\* ws ones before the wss ones.
DiscoveredPaths ==
    { eps \in EndpointLists :
        /\ \A i \in DOMAIN eps : eps[i].validated
        /\ \A i, j \in DOMAIN eps :
               (eps[i].protocol = "wss" /\ eps[j].protocol = "ws") => j < i }

\* One round of the loop over the cameras: the endpoints are discovered, the
\* optimal one is entered into camera_configs; the device is not touched.
ConfigureCamera(eps) ==
    LET ip == negotiation.configured + 1
        optimal == OptimalEndpoint(eps)
    IN  /\ negotiation.configured < Len(negotiation.cameras)
        /\ negotiation' =
             [ negotiation EXCEPT
                 !.configured = ip,
                 !.camera_configs =
                     IF optimal # << >>
                     THEN [ c \in DOMAIN @ \cup {ip} |->
                              IF c = ip THEN optimal[1] ELSE @[c] ]
                     ELSE @ ]
        /\ UNCHANGED << early_vars, relisted, parsed, cert_vars, orch >>

\* auto_configure_camera_websockets about to be called on any list of
\* devices.
InitNegotiate ==
    /\ MonitorNew
    /\ followed = "none"
    /\ LoopsNew("None")
    /\ DiscoveryNew
    /\ scan = ScanNew(0)
    /\ SelectionNew(<< >>)
    /\ RelistedNew(<< >>)
    /\ \E devices \in DeviceLists : negotiation = NegotiationNew(devices)
    /\ parsed = ParsedNew(NoCertificate, "h1", 0)
    /\ CertificatesNew
    /\ orch = OrchestratorNew
    /\ FurtherNew

NextNegotiate == \E eps \in DiscoveredPaths : ConfigureCamera(eps)

SpecNegotiate == InitNegotiate /\ [][NextNegotiate]_vars

\* ---------------------------------------------------- _parse_certificate

\* The certificates a host can present: any validity dates (a certificate
\* can be made out with not_after before not_before), any subject, issuer
\* and list of alternative names.
Certificates ==
    [ subject : Names, issuer : Names, not_before : 0..MaxDay,
      not_after : 0..MaxDay, san_names : SUBSET Names ]

\* The validation that records the first failed condition only.
ValidationErrorsFirstOnly(cert, host, now) ==
    IF now < cert.not_before THEN << "Certificate not yet valid" >>
    ELSE IF now > cert.not_after THEN << "Certificate expired" >>
    ELSE IF host \notin cert.san_names /\ host # cert.subject
         THEN << "Hostname not in certificate" >>
         ELSE << >>

\* The three ifs of the validation, each appending its message.
ValidationErrors(cert, host, now) ==
    (IF now < cert.not_before THEN << "Certificate not yet valid" >> ELSE << >>)
    \o (IF now > cert.not_after THEN << "Certificate expired" >> ELSE << >>)
    \o (IF host \notin cert.san_names /\ host # cert.subject
        THEN << "Hostname not in certificate" >> ELSE << >>)

\* is_valid starts True and every failed condition sets it False.
IsValid(cert, host, now) ==
    /\ ~(now < cert.not_before)
    /\ ~(now > cert.not_after)
    /\ ~(host \notin cert.san_names /\ host # cert.subject)

\* A call of _parse_certificate.
ParseCertificate ==
    /\ ~parsed.called
    /\ parsed' =
         [ parsed EXCEPT
             !.called = TRUE,
             !.is_self_signed = (parsed.cert.subject = parsed.cert.issuer),
             !.is_valid = IsValid(parsed.cert, parsed.host, parsed.now),
             !.validation_errors =
                 ValidationErrors(parsed.cert, parsed.host, parsed.now) ]
    /\ UNCHANGED << early_vars, relisted, negotiation, cert_vars, orch >>

\* Any certificate presented by any host at any time.
InitParse ==
    /\ MonitorNew
    /\ followed = "none"
    /\ LoopsNew("None")
    /\ DiscoveryNew
    /\ scan = ScanNew(0)
    /\ SelectionNew(<< >>)
    /\ RelistedNew(<< >>)
    /\ negotiation = NegotiationNew(<< >>)
    /\ \E cert \in Certificates, host \in Names, now \in 0..MaxDay :
         parsed = ParsedNew(cert, host, now)
    /\ CertificatesNew
    /\ orch = OrchestratorNew
    /\ FurtherNew

NextParse == ParseCertificate

SpecParse == InitParse /\ [][NextParse]_vars

\* ------------------------------ scan_camera_certificates, create_ca_bundle

\* The certificates a camera can present on port 443, by their PEM text.
Presented ==
    { [ pem |-> "A", is_self_signed |-> TRUE ],
      [ pem |-> "B", is_self_signed |-> TRUE ],
      [ pem |-> "C", is_self_signed |-> FALSE ] }

\* What a connection to port 443 comes to: a certificate, or an error.
Fetched == { << >> } \cup { << cert >> : cert \in Presented }

\* The pieces a file is written from: the text of the system CA bundle, the
\* heading of the self-signed part, the comment naming a file, a PEM block.
\* Files are named by the address before ".crt"; 0 names ca-bundle.crt.
SystemCa == [ kind |-> "system", name |-> 0, pem |-> "" ]

Heading == [ kind |-> "heading", name |-> 0, pem |-> "" ]

NameComment(name) == [ kind |-> "comment", name |-> name, pem |-> "" ]

PemBlock(pem) == [ kind |-> "pem", name |-> 0, pem |-> pem ]

BundleName == 0

\* open(path, 'w') and write: an existing file keeps its place in the
\* listing of the directory, a new one appears at place pos.
WriteFile(dir, name, content, pos) ==
    IF \E i \in DOMAIN dir : dir[i].name = name
    THEN [ i \in DOMAIN dir |->
             IF dir[i].name = name THEN [ dir[i] EXCEPT !.content = content ]
             ELSE dir[i] ]
    ELSE SubSeq(dir, 1, pos - 1) \o << [ name |-> name, content |-> content ] >>
         \o SubSeq(dir, pos, Len(dir))

\* One round of the loop of scan_camera_certificates: get_server_certificate
\* connects and comes to first; a certificate is entered into cert_info, and
\* a self-signed one is handed to save_certificate, which connects again,
\* comes to second, and writes what it received then (its errors are logged).
ScanCamera(first, second, pos) ==
    LET ip == cert_scan.scanned + 1
    IN  /\ cert_scan.scanned < cert_scan.cameras
        /\ pos \in 1..(Len(cert_dir) + 1)
        /\ cert_scan' =
             [ cert_scan EXCEPT
                 !.scanned = ip,
                 !.cert_info =
                     IF first # << >>
                     THEN [ c \in DOMAIN @ \cup {ip} |->
                              IF c = ip THEN first[1] ELSE @[c] ]
                     ELSE @ ]
        /\ cert_dir' =
             IF first # << >> /\ first[1].is_self_signed /\ second # << >>
             THEN WriteFile(cert_dir, ip, << PemBlock(second[1].pem) >>, pos)
             ELSE cert_dir
        /\ UNCHANGED << early_vars, relisted, negotiation, parsed, bundle, orch >>

\* cert_file.name != 'ca-bundle.crt', without the test.
IsCertFileAny(name) == TRUE

\* cert_file.name != 'ca-bundle.crt'
IsCertFile(name) == name # BundleName

RECURSIVE SelfSignedPart(_)
\* The loop over glob("*.crt"): the comment and the content of each file.
SelfSignedPart(dir) ==
    IF dir = << >> THEN << >>
    ELSE (IF IsCertFile(dir[1].name)
          THEN << NameComment(dir[1].name) >> \o dir[1].content
          ELSE << >>)
         \o SelfSignedPart(SubSeq(dir, 2, Len(dir)))

\* What create_ca_bundle writes.
BundleContent(dir, include_self_signed) ==
    << SystemCa >>
    \o (IF include_self_signed THEN << Heading >> \o SelfSignedPart(dir)
        ELSE << >>)

\* The content of ca-bundle.crt, empty when there is no such file.
BundleFile(dir) ==
    IF \E i \in DOMAIN dir : dir[i].name = BundleName
    THEN dir[CHOOSE i \in DOMAIN dir : dir[i].name = BundleName].content
    ELSE << >>

\* A call of create_ca_bundle after the scan.
CreateCaBundle(include_self_signed, pos) ==
    /\ cert_scan.scanned = cert_scan.cameras
    /\ bundle.builds < MaxBuilds
    /\ pos \in 1..(Len(cert_dir) + 1)
    /\ cert_dir' =
         WriteFile(cert_dir, BundleName,
                   BundleContent(cert_dir, include_self_signed), pos)
    /\ bundle' =
         [ builds |-> bundle.builds + 1,
           include_self_signed |-> include_self_signed,
           previous |-> BundleFile(cert_dir),
           previous_include |-> bundle.include_self_signed ]
    /\ UNCHANGED << early_vars, relisted, negotiation, parsed, cert_scan, orch >>

\* A new CertificateManager about to scan up to MaxIPs cameras.
InitCerts ==
    /\ MonitorNew
    /\ followed = "none"
    /\ LoopsNew("None")
    /\ DiscoveryNew
    /\ scan = ScanNew(0)
    /\ SelectionNew(<< >>)
    /\ RelistedNew(<< >>)
    /\ negotiation = NegotiationNew(<< >>)
    /\ parsed = ParsedNew(NoCertificate, "h1", 0)
    /\ cert_dir = << >>
    /\ \E n \in 0..MaxIPs : cert_scan = CertScanNew(n)
    /\ bundle = NoBundle
    /\ orch = OrchestratorNew
    /\ FurtherNew

NextCerts ==
    \/ \E first, second \in Fetched, pos \in 1..(MaxIPs + 2) :
           ScanCamera(first, second, pos)
    \/ \E include_self_signed \in BOOLEAN, pos \in 1..(MaxIPs + 2) :
           CreateCaBundle(include_self_signed, pos)

\* A certificate scan followed by calls of create_ca_bundle.
SpecCerts == InitCerts /\ [][NextCerts]_vars

\* ------------------------------------------- AutoConfigOrchestrator.run

\* The orchestrator with the events entered into its log.
Logged(events) == [ orch EXCEPT !.log = @ \o events ]

\* The phase run() goes to when a phase has returned, certificates left out.
NextPhaseWithoutCertificates(phase) ==
    CASE phase = "discovery" -> "websocket"
      [] phase = "websocket" -> "pwa"
      [] phase = "certificates" -> "pwa"
      [] phase = "pwa" -> "health"
      [] OTHER -> "status"

\* The phase run() goes to when a phase has returned.
NextPhase(phase) ==
    CASE phase = "discovery" -> "websocket"
      [] phase = "websocket" -> "certificates"
      [] phase = "certificates" -> "pwa"
      [] phase = "pwa" -> "health"
      [] OTHER -> "status"

\* An exception leaves the try of run(): it is logged and raised again, and
\* the finally clause is next.
Raises(o, phase) == [ o EXCEPT !.failed = phase, !.pc = "finally" ]

\* "not cameras" that is never true.
NoCamerasNever(n) == FALSE

\* not cameras
NoCameras(n) == n = 0

\* run() up to its first phase: the flag is set and the components are
\* built, which can raise.
RunCalled(ok) ==
    /\ orch.pc = "new"
    /\ orch' =
         IF ok
         THEN [ orch EXCEPT !.running = TRUE, !.components = TRUE,
                            !.pc = "discovery" ]
         ELSE Raises([ orch EXCEPT !.running = TRUE ], "init")
    /\ UNCHANGED << early_vars, configure_vars >>

\* run_discovery_phase and the test of its result in run(): n cameras are
\* found; with none, nothing is saved and run() returns; otherwise the
\* snapshot is written, which can raise.
RunDiscoveryPhase(n, saved) ==
    /\ orch.pc = "discovery"
    /\ orch' =
         LET found == [ Logged(<< "Discovery" >>) EXCEPT !.cameras = n ]
         IN  IF NoCameras(n) THEN [ found EXCEPT !.pc = "finally" ]
             ELSE IF saved
                  THEN [ found EXCEPT !.log = @ \o << "snapshot" >>,
                                      !.pc = NextPhase("discovery") ]
                  ELSE Raises(found, "discovery")
    /\ UNCHANGED << early_vars, configure_vars >>

\* run_websocket_configuration: the endpoints are negotiated, then the
\* configuration is written, which can raise.
RunWebsocketConfiguration(saved) ==
    /\ orch.pc = "websocket"
    /\ orch' =
         IF saved
         THEN [ Logged(<< "EndpointNegotiation", "endpoint_config" >>)
                  EXCEPT !.pc = NextPhase("websocket") ]
         ELSE Raises(Logged(<< "EndpointNegotiation" >>), "websocket")
    /\ UNCHANGED << early_vars, configure_vars >>

\* run_certificate_scan: the scan, the CA bundle, the expiry check and the
\* report; writing the bundle or the report can raise.
RunCertificateScan(raised_at) ==
    /\ orch.pc = "certificates"
    /\ orch' =
         CASE raised_at = "ca_bundle" ->
                Raises(Logged(<< "CertificateScan" >>), "certificates")
           [] raised_at = "certificate_report" ->
                Raises(Logged(<< "CertificateScan", "ca_bundle",
                                 "expiry_check" >>), "certificates")
           [] OTHER ->
                [ Logged(<< "CertificateScan", "ca_bundle", "expiry_check",
                            "certificate_report" >>)
                    EXCEPT !.pc = NextPhase("certificates") ]
    /\ UNCHANGED << early_vars, configure_vars >>

\* start_pwa_config_server
StartPwaConfigServer ==
    /\ orch.pc = "pwa"
    /\ orch' = [ Logged(<< "pwa" >>) EXCEPT !.pc = NextPhase("pwa") ]
    /\ UNCHANGED << early_vars, configure_vars >>

\* start_health_monitoring: the task of start_monitoring is created.
StartHealthMonitoring ==
    /\ orch.pc = "health"
    /\ orch' = [ Logged(<< "HealthMonitor" >>) EXCEPT !.pc = NextPhase("health") ]
    /\ UNCHANGED << early_vars, configure_vars >>

\* A round of display_status: the flag is read, then the sleep and the
\* status, whose errors are logged.
DisplayStatus ==
    /\ orch.pc = "status"
    /\ orch.running
    /\ orch.rounds < MaxRounds
    /\ orch' =
         [ orch EXCEPT !.rounds = @ + 1,
                       !.log = IF orch.rounds = 0 THEN @ \o << "status_loop" >>
                               ELSE @ ]
    /\ UNCHANGED << early_vars, configure_vars >>

\* display_status finds the flag cleared and returns.
DisplayStatusEnds ==
    /\ orch.pc = "status"
    /\ ~orch.running
    /\ orch' = [ orch EXCEPT !.pc = "finally" ]
    /\ UNCHANGED << early_vars, configure_vars >>

\* The finally clause that saves nothing.
SaveAttemptsNone(components) == << >>

\* The finally clause: save_health_report is called when there is a monitor.
SaveAttempts(components) ==
    IF components THEN << "save_report" >> ELSE << >>

\* The finally clause of run(): the save, whose failure is passed over; then
\* run() returns, or raises what the phase raised.
SaveFinalReport(ok) ==
    /\ orch.pc = "finally"
    /\ orch' =
         [ Logged(SaveAttempts(orch.components)) EXCEPT
             !.save_failed = orch.components /\ ~ok,
             !.pc = "done",
             !.outcome = IF orch.failed = "none" THEN "returned" ELSE "raised" ]
    /\ UNCHANGED << early_vars, configure_vars >>

\* handle_shutdown: the signal handler, at any point of run().
HandleShutdown ==
    /\ orch.pc \notin {"new", "done"}
    /\ ~orch.signalled
    /\ orch' = [ orch EXCEPT !.running = FALSE, !.signalled = TRUE ]
    /\ UNCHANGED << early_vars, configure_vars >>

\* The task created by start_health_monitoring runs start_monitoring; the
\* event loop ends with run().
MonitorTaskRuns ==
    /\ \E i \in DOMAIN orch.log : orch.log[i] = "HealthMonitor"
    /\ orch.pc # "done"
    /\ StartMonitoring

\* An iteration of the monitor's metrics loop, while the event loop lives.
MetricsLoopRuns ==
    /\ orch.pc # "done"
    /\ CollectMetrics

\* A new orchestrator beside new components.
InitRun ==
    /\ MonitorNew
    /\ followed = "none"
    /\ LoopsNew("None")
    /\ DiscoveryNew
    /\ scan = ScanNew(0)
    /\ SelectionNew(<< >>)
    /\ LaterNew

NextRun ==
    \/ \E ok \in BOOLEAN : RunCalled(ok)
    \/ \E n \in 0..MaxIPs, saved \in BOOLEAN : RunDiscoveryPhase(n, saved)
    \/ \E saved \in BOOLEAN : RunWebsocketConfiguration(saved)
    \/ \E raised_at \in {"none", "ca_bundle", "certificate_report"} :
           RunCertificateScan(raised_at)
    \/ StartPwaConfigServer
    \/ StartHealthMonitoring
    \/ DisplayStatus
    \/ DisplayStatusEnds
    \/ \E ok \in BOOLEAN : SaveFinalReport(ok)
    \/ HandleShutdown
    \/ MonitorTaskRuns
    \/ MetricsLoopRuns

\* One call of run(), with the signal handler installed.
SpecRun == InitRun /\ [][NextRun]_vars

\* ---------------------------------------------------- _create_digest_auth

\* hashlib.md5 of the fields joined by ":", kept as the term itself: two
\* digests are equal exactly when their fields are.
Md5(fields) == [ md5 |-> fields ]

\* The credentials of a CameraDiscovery.
Users == [ username : {"root", "admin"}, password : {"admin", "pass"} ]

\* The Digest challenges of a 401 answer; "" is a parameter that is absent
\* (the parsed dict has no such key).
Challenges ==
    [ realm : {"AXIS_1", "AXIS_2"}, nonce : {"n1", "n2"},
      uri : {"", "/", "/axis-cgi/basicdeviceinfo.cgi"}, qop : {"", "auth"} ]

\* The path _get_device_info requests, with and without TLS.
RequestUris == { "/axis-cgi/basicdeviceinfo.cgi" }

\* auth_params.get(key, default)
Get(value, default) == IF value = "" THEN default ELSE value

\* A call of _create_digest_auth on the headers of the 401 answer, at time t.
CreateDigestAuth(t) ==
    LET realm == Get(digest.challenge.realm, "")
        nonce == Get(digest.challenge.nonce, "")
        uri == Get(digest.challenge.uri, "/")
        qop == Get(digest.challenge.qop, "")
        ha1 == Md5(<< digest.username, realm, digest.password >>)
        ha2 == Md5(<< "GET", uri >>)
        cnonce == Md5(<< t >>)
    IN  /\ ~digest.called
        /\ digest' =
             IF qop # ""
             THEN [ digest EXCEPT
                      !.called = TRUE, !.uri = uri, !.qop = qop,
                      !.nc = "00000001", !.cnonce = cnonce,
                      !.response =
                          Md5(<< ha1, nonce, "00000001", cnonce, qop, ha2 >>) ]
             ELSE [ digest EXCEPT
                      !.called = TRUE, !.uri = uri,
                      !.response = Md5(<< ha1, nonce, ha2 >>) ]
        /\ UNCHANGED << component_vars, units, resources, ws, check_loops >>

\* Every component as its constructor leaves it, the single functions aside.
ComponentsNew ==
    /\ MonitorNew
    /\ followed = "none"
    /\ LoopsNew("None")
    /\ DiscoveryNew
    /\ scan = ScanNew(0)
    /\ SelectionNew(<< >>)
    /\ RelistedNew(<< >>)
    /\ negotiation = NegotiationNew(<< >>)
    /\ parsed = ParsedNew(NoCertificate, "h1", 0)
    /\ CertificatesNew
    /\ orch = OrchestratorNew

\* Any credentials and any Digest challenge to a device-info request.
InitDigest ==
    /\ MonitorNew
    /\ followed = "none"
    /\ LoopsNew("None")
    /\ DiscoveryNew
    /\ scan = ScanNew(0)
    /\ SelectionNew(<< >>)
    /\ RelistedNew(<< >>)
    /\ negotiation = NegotiationNew(<< >>)
    /\ parsed = ParsedNew(NoCertificate, "h1", 0)
    /\ CertificatesNew
    /\ orch = OrchestratorNew
    /\ \E user \in Users, challenge \in Challenges, request_uri \in RequestUris :
         digest = DigestNew(user, challenge, request_uri)
    /\ units = UnitsNew
    /\ resources = ResourcesNew(0, 0, 0)
    /\ ws = ConfiguratorNew(0)
    /\ check_loops = CheckLoopsNew(CheckNames)

NextDigest == \E t \in 1..2 : CreateDigestAuth(t)

SpecDigest == InitDigest /\ [][NextDigest]_vars

\* ------------------------------------------------- units on the event loop

\* How many times the health-check loop goes to sleep in a run.
MaxTurns == 2

\* The coroutines that asyncio.gather and create_task put on the one event
\* loop: the three discovery probes, the certificate fetch of a scan, and a
\* health-check loop.
Units == { "upnp", "bonjour", "adp", "certificate", "health_check" }

\* The event loop runs one coroutine at a time on its single thread; another
\* one gets a turn only when nobody is running on it.
CanStep == units.holder = "none"

\* A coroutine that makes its network operation with a blocking socket call
\* (no await): the loop's thread sits in the call, so the unit waits on the
\* network while still holding the loop.
BlockingCall(u) ==
    /\ CanStep
    /\ units.pc[u] = "ready"
    /\ units' = [ units EXCEPT !.pc[u] = "network", !.holder = u ]
    /\ UNCHANGED << component_vars, digest, resources, ws, check_loops >>

\* The blocking call comes back (data, socket.timeout or an error, all
\* handled inside) and the coroutine runs to its return.
BlockingReturns(u) ==
    /\ units.holder = u
    /\ units.pc[u] = "network"
    /\ units' = [ units EXCEPT !.pc[u] = "done", !.holder = "none" ]
    /\ UNCHANGED << component_vars, digest, resources, ws, check_loops >>

\* A coroutine that reaches an await: it is suspended at `at` and gives the
\* loop back.
Awaits(u, at) ==
    /\ CanStep
    /\ units.pc[u] = "ready"
    /\ units' = [ units EXCEPT !.pc[u] = at ]
    /\ UNCHANGED << component_vars, digest, resources, ws, check_loops >>

\* The awaited operation completes and the loop resumes the coroutine.
Resumes(u, at, to) ==
    /\ CanStep
    /\ units.pc[u] = at
    /\ units' = [ units EXCEPT !.pc[u] = to ]
    /\ UNCHANGED << component_vars, digest, resources, ws, check_loops >>

\* _upnp_discovery: sock.sendto, then sock.recvfrom in the 3s listen window,
\* on a plain socket with settimeout(3).
UpnpDiscovery == BlockingCall("upnp")

UpnpDiscoveryReturns == BlockingReturns("upnp")

\* _axis_discovery_protocol: the same with the WS-Discovery probe.
AxisDiscoveryProtocol == BlockingCall("adp")

AxisDiscoveryProtocolReturns == BlockingReturns("adp")

\* _bonjour_discovery: awaits create_subprocess_exec and communicate().
BonjourDiscovery == Awaits("bonjour", "network")

BonjourDiscoveryReturns == Resumes("bonjour", "network", "done")

\* get_server_certificate: socket.create_connection and wrap_socket, the
\* TCP and TLS connect, inside the coroutine without an await.
GetServerCertificate == BlockingCall("certificate")

GetServerCertificateReturns == BlockingReturns("certificate")

\* _run_health_check_loop: await asyncio.sleep(check.interval) ...
HealthCheckSleeps ==
    /\ units.turns < MaxTurns
    /\ CanStep
    /\ units.pc["health_check"] = "ready"
    /\ units' = [ units EXCEPT !.pc["health_check"] = "sleep",
                               !.turns = @ + 1 ]
    /\ UNCHANGED << component_vars, digest, resources, ws, check_loops >>

\* ... and the next iteration when the sleep is over.
HealthCheckWakes == Resumes("health_check", "sleep", "ready")

InitUnits ==
    /\ ComponentsNew
    /\ FurtherNew

NextUnits ==
    \/ UpnpDiscovery
    \/ UpnpDiscoveryReturns
    \/ AxisDiscoveryProtocol
    \/ AxisDiscoveryProtocolReturns
    \/ BonjourDiscovery
    \/ BonjourDiscoveryReturns
    \/ GetServerCertificate
    \/ GetServerCertificateReturns
    \/ HealthCheckSleeps
    \/ HealthCheckWakes

SpecUnits == InitUnits /\ [][NextUnits]_vars

\* ------------------------------------- the health-check loops, each a task

\* The checks whose loop tasks are followed step by step: a check with a
\* recovery_fn, whose function can raise or can time out, beside a check
\* without one.
LoopRegistries ==
    { << "system_resources", "network_health" >>,
      << "pwa_config_service", "network_health" >> }

\* The loop's test with a loop that gives up during its own recovery.
ContinuesUnlessRecovering(c) ==
    /\ monitoring
    /\ ~(InProgressKey(c) /\ recovery_in_progress[c])

\* `while self.monitoring:` of the loop of check c.
Continues(c) == monitoring

\* The body of the loop of check c from the call of _run_health_check to the
\* await of asyncio.sleep(check.interval): every outcome of check_fn is
\* turned into a status by _run_health_check, so the loop's own except
\* clause has nothing left to catch.
LoopIteration(c) ==
    /\ c \in Registered
    /\ monitoring
    /\ check_loops.pc[c] = "check"
    /\ \E outcome \in Outcomes(c) :
        LET old == health_checks[c]
            status == Classify(outcome)
            failures == NextFailures(status, old.consecutive_failures)
            spawn == status # HEALTHY /\ TriggerRecovery(c, failures)
        IN  /\ failures <= MaxFailures
            /\ spawn => pending[c] < MaxPending
            /\ health_checks' =
                 [health_checks EXCEPT ![c] =
                    [ last_check |-> "set",
                      last_status |-> status,
                      consecutive_failures |-> failures,
                      error_message |->
                          NextError(status, CheckError(outcome, old.error_message)) ]]
            /\ pending' =
                 [pending EXCEPT ![c] = IF spawn THEN @ + 1 ELSE @]
            /\ check_loops' =
                 [check_loops EXCEPT !.pc[c] = "sleep", !.outcome[c] = outcome]
    /\ UNCHANGED << registry, monitoring, recovery_in_progress, running,
                    alerts, alert_seq, hist, report, followed, other_runs >>
    /\ UNCHANGED << dispatch_vars, metrics_vars, discovery_vars, scan,
                    selection_vars, configure_vars, orch, digest, units,
                    resources, ws >>

\* asyncio.sleep(check.interval) is over: the loop tests self.monitoring and
\* either starts its next iteration or ends.
LoopWakes(c) ==
    /\ c \in Registered
    /\ check_loops.pc[c] = "sleep"
    /\ check_loops' =
         [check_loops EXCEPT
            !.pc[c] = IF Continues(c) THEN "check" ELSE "ended"]
    /\ UNCHANGED << monitoring, alerts, alert_seq, check_vars >>
    /\ UNCHANGED << dispatch_vars, metrics_vars, discovery_vars, scan,
                    selection_vars, configure_vars, orch, digest, units,
                    resources, ws >>

\* A monitor with the loops of one of these registries.
InitLoops ==
    /\ \E reg \in LoopRegistries : Constructed(reg)
    /\ health_checks = [c \in Registered |-> NewCheck]
    /\ followed = "none"
    /\ LoopsNew("None")
    /\ DiscoveryNew
    /\ scan = ScanNew(0)
    /\ SelectionNew(<< >>)
    /\ RelistedNew(<< >>)
    /\ negotiation = NegotiationNew(<< >>)
    /\ parsed = ParsedNew(NoCertificate, "h1", 0)
    /\ CertificatesNew
    /\ orch = OrchestratorNew
    /\ digest = DigestNew([ username |-> "root", password |-> "admin" ],
                          NoChallenge, "/")
    /\ units = UnitsNew
    /\ resources = ResourcesNew(0, 0, 0)
    /\ ws = ConfiguratorNew(0)
    /\ check_loops = CheckLoopsNew(Registered)

NextLoops ==
    \/ StartMonitoring
    \/ \E c \in Registered : LoopIteration(c)
    \/ \E c \in Registered : LoopWakes(c)
    \/ \E c \in Registered : RecoveryStart(c)
    \/ \E c \in Registered : RecoveryFinish(c)
    \/ ProcessAlerts

\* The event loop gives every task that can run a turn: a loop task that
\* is ready to run its check, or whose sleep is over, is resumed.
SpecLoopsFair ==
    /\ InitLoops
    /\ [][NextLoops]_vars
    /\ \A c \in CheckNames :
         WF_vars(LoopIteration(c)) /\ WF_vars(LoopWakes(c))

\* --------------------------------------------- the system-resources check

\* config['thresholds'] as _load_config sets them without a config file.
CpuThreshold == 80

MemoryThreshold == 85

DiskThreshold == 90

\* The percentage above which cpu or memory usage is critical.
CriticalPercent == 95

\* Usage percentages on both sides of every threshold.
Percents == { 0, 80, 81, 85, 86, 90, 91, 95, 96, 100 }

\* _check_system_resources: the status for what psutil reports.
SystemResources(cpu_percent, memory_percent, disk_percent) ==
    IF \/ cpu_percent > CpuThreshold
       \/ memory_percent > MemoryThreshold
       \/ disk_percent > DiskThreshold
    THEN IF cpu_percent > CriticalPercent \/ memory_percent > CriticalPercent
         THEN CRITICAL
         ELSE DEGRADED
    ELSE HEALTHY

\* A call of _check_system_resources.
CheckSystemResources ==
    /\ resources.status = "none"
    /\ resources' =
         [ resources EXCEPT
             !.status = SystemResources(resources.cpu_percent,
                                        resources.memory_percent,
                                        resources.disk_percent) ]
    /\ UNCHANGED << component_vars, digest, units, ws, check_loops >>

\* Any usage of cpu, memory and disk.
InitResources ==
    /\ ComponentsNew
    /\ digest = DigestNew([ username |-> "root", password |-> "admin" ],
                          NoChallenge, "/")
    /\ units = UnitsNew
    /\ \E cpu \in Percents, memory \in Percents, disk \in Percents :
         resources = ResourcesNew(cpu, memory, disk)
    /\ ws = ConfiguratorNew(0)
    /\ check_loops = CheckLoopsNew(CheckNames)

NextResources == CheckSystemResources

SpecResources == InitResources /\ [][NextResources]_vars

\* ------------------------------------------------ endpoint validation

\* How many cameras auto_configure_camera_websockets is given.
MaxCameras == 2

\* `for protocol in ['ws', 'wss']`
ProtocolOrder == << "ws", "wss" >>

\* The paths tried per protocol: one of the base paths of
\* _get_websocket_paths, every path going through the same code.
WsPaths == << "/ws" >>

\* The candidates of one camera, in the order of the two loops.
CandidatesOf(camera) ==
    [ i \in 1..(Len(ProtocolOrder) * Len(WsPaths)) |->
        [ camera |-> camera,
          protocol |-> ProtocolOrder[((i - 1) \div Len(WsPaths)) + 1],
          path |-> WsPaths[((i - 1) % Len(WsPaths)) + 1] ] ]

\* WebSocketConfig(url=..., protocol=..., path=...) with its defaults.
WebSocketConfig(candidate) ==
    [ url |-> candidate, validated |-> FALSE, latency |-> "0.0",
      error |-> "None" ]

\* What connecting, sending the ping and waiting for a reply can come to: the
\* handshake is refused with a status code or fails otherwise, the send
\* fails, the socket is closed during the wait, a reply arrives, the 2s wait
\* elapses with the socket open, or a reply arrives and close() then fails.
ValidationOutcomes ==
    { "status_401", "status_403", "status_404", "handshake_failed",
      "send_failed", "closed", "reply", "no_reply", "reply_close_failed" }

\* The outcomes in which websockets.connect raised.
HandshakeFailures ==
    { "status_401", "status_403", "status_404", "handshake_failed" }

\* Caught with the generic except clause left out.
CaughtStatusOnly(outcome) ==
    outcome \in { "status_401", "status_403", "status_404" }

\* The except clauses of _validate_endpoint: InvalidStatusCode, then
\* Exception, which takes every other failure.
Caught(outcome) == TRUE

\* The text the except clauses store in config.error.
ErrorText(outcome) ==
    CASE outcome = "status_401" ->
             "Invalid status code: 401 (Authentication required)"
      [] outcome = "status_403" ->
             "Invalid status code: 403 (Forbidden - check credentials)"
      [] outcome = "status_404" -> "Invalid status code: 404"
      [] outcome \in { "handshake_failed", "send_failed", "closed",
                       "reply_close_failed" } -> "exception"
      [] OTHER -> "None"

\* _validate_endpoint: the config as it leaves it.
ValidateEndpoint(config, outcome) ==
    [ config EXCEPT
        !.validated = outcome \in { "reply", "no_reply", "reply_close_failed" },
        !.latency = IF outcome \in { "reply", "no_reply", "reply_close_failed" }
                    THEN "elapsed" ELSE @,
        !.error = ErrorText(outcome) ]

\* Recorded with every candidate appended.
RecordedAlways(config) == TRUE

\* `if config.validated: endpoints.append(config)`
Recorded(config) == config.validated

\* discover_websocket_paths, one round of its loops: the candidate is built
\* and validated and appended if it validated; after the last candidate of
\* a camera the endpoints are added to discovered_endpoints and the next
\* camera follows (find_optimal_endpoint and test_stream_quality change
\* neither). An exception that _validate_endpoint did not catch leaves
\* through auto_configure_camera_websockets.
DiscoverWebsocketPaths(outcome) ==
    /\ ws.pc = "validating"
    /\ LET candidates == CandidatesOf(ws.camera)
           config == ValidateEndpoint(WebSocketConfig(candidates[ws.path]),
                                      outcome)
           found == IF Recorded(config)
                    THEN Append(ws.endpoints, config)
                    ELSE ws.endpoints
           last == [ outcome |-> outcome, validated |-> config.validated,
                     error |-> config.error ]
       IN  ws' =
             IF ~Caught(outcome)
             THEN [ ws EXCEPT !.pc = "raised", !.last.outcome = outcome ]
             ELSE IF ws.path < Len(candidates)
             THEN [ ws EXCEPT !.path = @ + 1, !.endpoints = found,
                              !.last = last ]
             ELSE [ ws EXCEPT
                      !.pc = IF ws.camera < ws.cameras
                             THEN "validating" ELSE "configured",
                      !.camera = IF ws.camera < ws.cameras THEN @ + 1 ELSE @,
                      !.path = 1,
                      !.endpoints = << >>,
                      !.discovered_endpoints = @ \o found,
                      !.last = last ]
    /\ UNCHANGED << component_vars, digest, units, resources, check_loops >>

\* save_configuration: the to_dict() of every discovered endpoint is
\* written to websocket_config.json.
SaveConfiguration ==
    /\ ws.pc = "configured"
    /\ ws' = [ ws EXCEPT
                 !.pc = "saved",
                 !.file = [ written |-> TRUE,
                            endpoints |-> ws.discovered_endpoints ] ]
    /\ UNCHANGED << component_vars, digest, units, resources, check_loops >>

\* sum(1 for ep in endpoints if ep.get('validated', False))
ValidCount(eps) ==
    Cardinality({ i \in DOMAIN eps : eps[i].validated })

\* _check_websocket_health on the endpoints read from the file.
WebsocketHealth(eps) ==
    IF eps = << >> THEN UNKNOWN
    ELSE IF ValidCount(eps) = Len(eps) THEN HEALTHY
    ELSE IF 2 * ValidCount(eps) > Len(eps) THEN DEGRADED
    ELSE UNHEALTHY

\* A call of _check_websocket_health: open() or json.load fails (no file,
\* or an unreadable one) and the except clause returns UNKNOWN, or the
\* endpoints of the file are counted.
CheckWebsocketHealth(readable) ==
    /\ ws' = [ ws EXCEPT
                 !.status = IF ws.file.written /\ readable
                            THEN WebsocketHealth(ws.file.endpoints)
                            ELSE UNKNOWN ]
    /\ UNCHANGED << component_vars, digest, units, resources, check_loops >>

\* A configurator given one to MaxCameras cameras.
InitValidate ==
    /\ ComponentsNew
    /\ digest = DigestNew([ username |-> "root", password |-> "admin" ],
                          NoChallenge, "/")
    /\ units = UnitsNew
    /\ resources = ResourcesNew(0, 0, 0)
    /\ \E n \in 1..MaxCameras : ws = ConfiguratorNew(n)
    /\ check_loops = CheckLoopsNew(CheckNames)

NextValidate ==
    \/ \E outcome \in ValidationOutcomes : DiscoverWebsocketPaths(outcome)
    \/ SaveConfiguration
    \/ \E readable \in BOOLEAN : CheckWebsocketHealth(readable)

SpecValidate == InitValidate /\ [][NextValidate]_vars

\* ---------------------------------------------------------------- claims

Finished(c) == hist[c].returned + hist[c].raised

\* C1: at most one execution of a check's recovery function is in progress
\* at any time; when two recovery tasks of a check were created before
\* either had run, then once both have run exactly one of them has called
\* the recovery function and exactly one recovery_started alert was queued.
C1_SingleFlight ==
    \A c \in Registered :
        /\ Cardinality(running[c]) <= 1
        /\ (hist[c].overlapped >= 1 /\ pending[c] = 0) =>
               (hist[c].calls = 1 /\ hist[c].appended = 1)

\* Two tasks of one check were created before either ran, and both have run.
C1_Witness ==
    \E c \in Registered :
        /\ hist[c].overlapped >= 1
        /\ hist[c].spawned = 2
        /\ pending[c] = 0
        /\ hist[c].calls = 1

\* C2 as claimed: once a recovery of a check has finished, a later run of the
\* check that leaves it failing with consecutive_failures >= retries creates
\* a recovery task again.
C2_RetriedAfterFinish ==
    [][ \A c \in Registered :
          ( /\ HasRecoveryFn(c)
            /\ Finished(c) > 0
            /\ running[c] = {}
            /\ hist'[c].since_healthy > hist[c].since_healthy
            /\ health_checks'[c].consecutive_failures >= Retries )
          => hist'[c].spawned = hist[c].spawned + 1 ]_vars

\* C3: a recovery task is created only by a run of the check that classified
\* it non-HEALTHY, and only if the check has a recovery function, its
\* consecutive_failures has reached retries and no recovery of the check is
\* in progress.
C3_TriggerRule ==
    [][ \A c \in Registered :
          hist'[c].spawned > hist[c].spawned =>
            /\ hist'[c].since_healthy = hist[c].since_healthy + 1
            /\ health_checks'[c].last_status # HEALTHY
            /\ HasRecoveryFn(c)
            /\ health_checks'[c].consecutive_failures >= Retries
            /\ running[c] = {}
            /\ ~InProgressKey(c) ]_vars

\* A recovery task has just been created at consecutive_failures = retries.
C3_Witness ==
    \E c \in Registered :
        /\ pending[c] = 1
        /\ hist[c].spawned = 1
        /\ health_checks[c].consecutive_failures = Retries

\* C4 as claimed: every recovery queues one alert when it starts and one more
\* when the recovery function has returned.
C4_TwoAlertsPerRecovery ==
    \A c \in Registered :
        hist[c].appended = hist[c].calls + hist[c].returned

\* C5 as claimed: when the recovery function raises, the queue holds an alert
\* of the check with action recovery_failed, and the check's fields are left
\* as they were.
C5_RaiseQueuesFailed ==
    [][ \A c \in Registered :
          hist'[c].raised > hist[c].raised =>
            /\ \E i \in DOMAIN alerts' :
                 /\ alerts'[i].check_name = c
                 /\ alerts'[i].action = "recovery_failed"
            /\ health_checks'[c] = health_checks[c] ]_vars

\* C6 as claimed: once a recovery has ended and none is running, the name is
\* neither a key the guards find nor listed by get_health_status().
C6_ClearedWhenDone ==
    \A c \in Registered :
        (Finished(c) > 0 /\ running[c] = {}) =>
            /\ ~InProgressKey(c)
            /\ c \notin GetHealthStatus.recovery_in_progress

\* C7: consecutive_failures is the number of non-HEALTHY results since the
\* last HEALTHY one, never negative, zero only before the first run or after
\* a HEALTHY result, which also clears error_message; recoveries leave it.
C7_FailureCount ==
    \A c \in Registered :
        LET hc == health_checks[c]
        IN  /\ hc.consecutive_failures \in Nat
            /\ hc.consecutive_failures = hist[c].since_healthy
            /\ hc.last_status = HEALTHY =>
                   (hc.consecutive_failures = 0 /\ hc.error_message = "")
            /\ hc.consecutive_failures = 0 =>
                   (hc.last_status = HEALTHY \/ hc.last_check = "None")

\* A recovery has returned and an UNKNOWN result was counted, the count
\* still standing at retries or more.
C7_Witness ==
    \E c \in Registered :
        /\ hist[c].returned >= 1
        /\ health_checks[c].last_status = UNKNOWN
        /\ health_checks[c].consecutive_failures > Retries

Rank(status) ==
    CASE status = CRITICAL  -> 3
      [] status = UNHEALTHY -> 2
      [] status = DEGRADED  -> 1
      [] OTHER              -> 0

Worst(statuses) ==
    CHOOSE s \in statuses : \A t \in statuses : Rank(t) <= Rank(s)

KnownStatuses ==
    { health_checks[c].last_status : c \in Registered } \ {UNKNOWN}

\* C8: when some check has a status other than UNKNOWN, the overall status
\* get_health_status() reports is the worst of the checks' statuses other
\* than UNKNOWN, under CRITICAL > UNHEALTHY > DEGRADED > HEALTHY.
C8_WorstStatus ==
    (report # NoReport /\ KnownStatuses # {}) =>
        report.overall_status = Worst(KnownStatuses)

\* A report on UNHEALTHY, UNKNOWN, DEGRADED registered in this order.
C8_Witness ==
    /\ report # NoReport
    /\ report.checks = << UNHEALTHY, UNKNOWN, DEGRADED >>
    /\ report.overall_status = UNHEALTHY

\* C9 as claimed: when every registered check is UNKNOWN, the overall status
\* reported is UNKNOWN.
C9_AllUnknown ==
    ( /\ report # NoReport
      /\ Registered # {}
      /\ \A c \in Registered : health_checks[c].last_status = UNKNOWN )
    => report.overall_status = UNKNOWN

\* C10 as claimed: a check that has run is never UNKNOWN again.
C10_NeverUnknownAgain ==
    \A c \in Registered :
        health_checks[c].last_check # "None" =>
            health_checks[c].last_status # UNKNOWN

\* The statuses a run of check c can leave in last_status: those its check
\* function returns, and UNHEALTHY if it can time out or raise.
RunStatuses(c) ==
    CheckReturns(c)
        \cup (IF CanTimeout(c) \/ CanRaise(c) THEN {UNHEALTHY} ELSE {})

\* C10 as amended: after a run, last_status is a status the check function
\* returns, or UNHEALTHY for a timeout or an exception; it is UNKNOWN again
\* only for a check whose function returns UNKNOWN, and that run counted as
\* a failure.
C10_StatusAfterRun ==
    \A c \in Registered :
        LET hc == health_checks[c]
        IN  hc.last_check # "None" =>
              /\ hc.last_status \in RunStatuses(c)
              /\ hc.last_status = UNKNOWN =>
                     (UNKNOWN \in CheckReturns(c) /\ hc.consecutive_failures >= 1)

\* The camera check has been HEALTHY and then came back UNKNOWN.
C10_Witness ==
    /\ health_checks["camera_connectivity"].last_status = UNKNOWN
    /\ health_checks["camera_connectivity"].consecutive_failures = 1
    /\ health_checks["camera_connectivity"].last_check # "None"

\* C11: certificate_validity and network_health have no auto-recovery:
\* whatever their consecutive_failures, no recovery task of theirs is ever
\* created, run or recorded in recovery_in_progress, and no alert of theirs
\* is ever queued.
C11_NoAutoRecovery ==
    \A c \in {"certificate_validity", "network_health"} :
        /\ hist[c].spawned = 0
        /\ pending[c] = 0
        /\ running[c] = {}
        /\ hist[c].calls = 0
        /\ hist[c].appended = 0
        /\ ~InProgressKey(c)
        /\ \A i \in DOMAIN alerts : alerts[i].check_name # c

\* One of the two checks has failed more often in a row than retries.
C11_Witness ==
    \E c \in {"certificate_validity", "network_health"} :
        /\ health_checks[c].consecutive_failures > Retries
        /\ health_checks[c].last_status = UNHEALTHY

\* The smaller of two numbers.
Min(a, b) == IF a < b THEN a ELSE b

\* Alert i has been handed to _send_alert.
Dispatched(i) == \E k \in DOMAIN sent : sent[k] = i

\* C12 as claimed: the alerts handed to _send_alert, those of the batch being
\* sent and those still queued are, in this order, the alerts queued so far
\* in the order of their queueing (none lost, none handed over twice, none
\* re-queued); a cycle cuts the min(10, n) oldest alerts off the queue; and
\* every queued alert is eventually handed to _send_alert.
C12_AlertDispatch ==
    /\ [](sent \o Ids(alerts_to_send) \o Ids(alerts) = [i \in 1..alert_seq |-> i])
    /\ [][ Len(alerts') < Len(alerts) =>
             /\ Len(alerts) - Len(alerts') = Min(AlertBatch, Len(alerts))
             /\ alerts' = SubSeq(alerts, Len(alerts) - Len(alerts') + 1, Len(alerts)) ]_vars
    /\ \A i \in 1..MaxAlerts : (alert_seq >= i) ~> Dispatched(i)

\* C13: after every iteration of the metrics loop that appended a sample,
\* the history ends with that sample, holds no sample that was an hour old
\* or older when it was pruned, and is in timestamp order; its length never
\* exceeds the number of ticks of the one-hour window.
C13_RollingWindow ==
    /\ Len(metrics_history) <= HourTicks
    /\ \A i, j \in DOMAIN metrics_history :
           i < j => metrics_history[i] <= metrics_history[j]
    /\ last_sample.appended =>
           /\ metrics_history # << >>
           /\ metrics_history[Len(metrics_history)] = last_sample.timestamp
           /\ \A i \in DOMAIN metrics_history :
                  last_sample.now - metrics_history[i] < HourTicks

\* An append has pruned samples and left more than the new one.
C13_Witness ==
    /\ last_sample.appended
    /\ last_sample.dropped >= 1
    /\ Len(metrics_history) >= 2

\* The addresses in the sets of the probes that returned one.
CompletedUnion ==
    { ip \in IPs :
        \E p \in DOMAIN results : ~results[p].raised /\ ip \in results[p].ips }

\* C14: whichever probes raise, the first gather ends with all probes ended,
\* the candidates are exactly the addresses in the sets of the probes that
\* returned one (a probe that raised adds none), the call goes on to the
\* per-address probing, and from there it returns a list of devices of
\* candidates.
C14_ProbeFailureTolerated ==
    [][ /\ (disc_pc = "gather" /\ disc_pc' # "gather") =>
              /\ DOMAIN results = Probes(network_range)
              /\ disc_pc' = "probing"
              /\ discovered_ips' = CompletedUnion
        /\ (disc_pc = "probing" /\ disc_pc' # "probing") =>
              /\ disc_pc' = "returned"
              /\ \A d \in cameras' : d.ip \in discovered_ips ]_vars

\* A call in which both socket probes raised has returned devices.
C14_Witness ==
    /\ disc_pc = "returned"
    /\ raised_probes = {"upnp", "adp"}
    /\ cameras # {}

\* C15 as claimed: a call with a syntactically invalid CIDR does not return a
\* device list (it fails instead).
C15_InvalidCidrFails ==
    disc_pc = "returned" => network_range # "not-a-cidr"

\* C16: the registry maps each address to one Device, that of the address's
\* most recent successful probe; a call in which every device that answers
\* answers as in its last successful probe (an unchanged network) leaves the
\* registry as it was.
C16_IdempotentUpsert ==
    /\ [](/\ discovered_cameras = latest
          /\ \A ip \in DOMAIN discovered_cameras : discovered_cameras[ip].ip = ip)
    /\ [][ ( /\ disc_pc = "probing"
             /\ disc_pc' = "returned"
             /\ \A d \in cameras' : d.ip \in DOMAIN latest /\ latest[d.ip] = d )
           => discovered_cameras' = discovered_cameras ]_vars

\* A later call has found one device again while another registered address
\* did not answer: its entry is that of an earlier call.
C16_Witness ==
    /\ disc_pc = "returned"
    /\ DOMAIN discovered_cameras = IPs
    /\ Cardinality(cameras) = 1
    /\ \E ip \in DOMAIN device_info : device_info[ip] = "None"

\* C17 as claimed: after a call, a candidate whose _get_device_info came to
\* None is neither in the returned list nor in the registry, and every
\* returned Device has a model obtained from the device.
C17_DroppedOrModelled ==
    disc_pc = "returned" =>
        /\ \A ip \in DOMAIN device_info :
               device_info[ip] = "None" =>
                   /\ \A d \in cameras : d.ip # ip
                   /\ ip \notin DOMAIN discovered_cameras
        /\ \A d \in cameras : d.model # "unknown"

\* C18: during the subnet scan at most 50 host checks are in flight at any
\* time, no host address is checked twice, and when the scan has ended every
\* host address has been checked once.
C18_ScanChunked ==
    /\ scan.started - scan.done <= ChunkSize
    /\ \A h \in 1..scan.hosts : scan.checks[h] <= 1
    /\ scan.phase = "probe" => \A h \in 1..scan.hosts : scan.checks[h] = 1

\* The scan of a network of more hosts than one chunk has ended.
C18_Witness ==
    /\ scan.phase = "probe"
    /\ scan.hosts > ChunkSize
    /\ scan.done = scan.hosts

\* C19 as claimed: during the per-address probing no more than 50 devices
\* are being probed at the same time.
C19_ProbeCap ==
    scan.phase = "probe" => scan.found - scan.probed <= MaxWorkers

\* The validated entries of the list handed to find_optimal_endpoint.
ValidatedEntries == { endpoints[i] : i \in { k \in DOMAIN endpoints : endpoints[k].validated } }

\* C20: find_optimal_endpoint returns None iff no entry of the list is
\* validated; otherwise it returns one entry of the list, which is
\* validated, is a wss entry whenever a validated wss entry exists, and is
\* no slower than any validated entry of its protocol.
C20_Selection ==
    selected.called =>
        /\ (selected.result = << >>) <=> (ValidatedEntries = {})
        /\ Len(selected.result) <= 1
        /\ selected.result # << >> =>
             LET chosen == selected.result[1]
             IN  /\ chosen \in ValidatedEntries
                 /\ chosen.validated
                 /\ (\E ep \in ValidatedEntries : ep.protocol = "wss") =>
                        chosen.protocol = "wss"
                 /\ \A ep \in ValidatedEntries :
                        ep.protocol = chosen.protocol =>
                            chosen.latency <= ep.latency

\* The list (wss, slow), (ws, fast), (wss, medium), all validated, gave the
\* third entry.
C20_Witness ==
    /\ selected.called
    /\ Len(endpoints) = 3
    /\ \A i \in DOMAIN endpoints : endpoints[i].validated
    /\ endpoints[1].protocol = "wss" /\ endpoints[1].latency = 2
    /\ endpoints[2].protocol = "ws" /\ endpoints[2].latency = 0
    /\ endpoints[3].protocol = "wss" /\ endpoints[3].latency = 1
    /\ selected.result = << endpoints[3] >>

\* C21: the selection is the same for a fixed set of candidates whatever the
\* order in which they are listed, also when two validated candidates of one
\* protocol have the same latency: once find_optimal_endpoint has returned
\* for both listings, the two results are the same candidate.
C21_OrderIndependent ==
    (selected.called /\ relisted.called) => selected.result = relisted.result

\* C22: after the endpoint negotiation, every device for which a candidate
\* was selected holds the selected candidate's url as websocket_url, and
\* every device without a validated candidate has websocket_url unset.
C22_UrlIsWinner ==
    negotiation.configured = Len(negotiation.cameras) =>
        \A ip \in DOMAIN negotiation.cameras :
            negotiation.cameras[ip].websocket_url =
                IF ip \in DOMAIN negotiation.camera_configs
                THEN << negotiation.camera_configs[ip].url >>
                ELSE << >>

\* The number of entries of a list of messages that are the message.
Count(messages, message) ==
    Cardinality({ i \in DOMAIN messages : messages[i] = message })

\* C23: the validation_errors of a scanned certificate hold exactly one
\* message for each of the conditions that holds (now before not_before, now
\* after not_after, host neither among the alternative names nor the subject)
\* and nothing else, every condition being evaluated whatever the others
\* gave; is_valid is true exactly when validation_errors is empty.
C23_ValidationErrors ==
    parsed.called =>
        LET cert == parsed.cert
            errors == parsed.validation_errors
            not_yet == parsed.now < cert.not_before
            expired == parsed.now > cert.not_after
            mismatch == parsed.host \notin cert.san_names
                        /\ parsed.host # cert.subject
            Ones(b) == IF b THEN 1 ELSE 0
        IN  /\ Count(errors, "Certificate not yet valid") = Ones(not_yet)
            /\ Count(errors, "Certificate expired") = Ones(expired)
            /\ Count(errors, "Hostname not in certificate") = Ones(mismatch)
            /\ Len(errors) = Ones(not_yet) + Ones(expired) + Ones(mismatch)
            /\ parsed.is_valid <=> errors = << >>

\* An expired certificate made out to another name was parsed: two
\* conditions hold at once.
C23_Witness ==
    /\ parsed.called
    /\ parsed.now > parsed.cert.not_after
    /\ parsed.host \notin parsed.cert.san_names
    /\ parsed.host # parsed.cert.subject
    /\ Len(parsed.validation_errors) = 2

\* The content of the file of a name, empty when there is no such file.
FileContent(dir, name) ==
    IF \E i \in DOMAIN dir : dir[i].name = name
    THEN dir[CHOOSE i \in DOMAIN dir : dir[i].name = name].content
    ELSE << >>

HasFile(dir, name) == \E i \in DOMAIN dir : dir[i].name = name

\* C24: after a certificate scan the directory holds a PEM file for a host
\* exactly when the certificate scanned for that host is self-signed, and
\* the file is the certificate the scan recorded for the host.
C24_PersistedIffSelfSigned ==
    cert_scan.scanned = cert_scan.cameras =>
        \A ip \in 1..cert_scan.cameras :
            LET self_signed == ip \in DOMAIN cert_scan.cert_info
                               /\ cert_scan.cert_info[ip].is_self_signed
            IN  /\ HasFile(cert_dir, ip) <=> self_signed
                /\ self_signed =>
                       FileContent(cert_dir, ip) =
                           << PemBlock(cert_scan.cert_info[ip].pem) >>

\* The certificate files of the directory: every file but the bundle.
CertFiles(dir) == { i \in DOMAIN dir : dir[i].name # BundleName }

\* C25: create_ca_bundle is idempotent, and the bundle is the system trust
\* bundle followed, when include_self_signed is true, by every persisted
\* certificate with a comment naming its file before it. After a call the
\* file starts with the system bundle, which occurs in it once (the previous
\* bundle is not taken in); without include_self_signed it holds nothing
\* else; with it, it holds one PEM block per certificate file, each behind
\* the comment naming that file, and no other PEM block; and a second call
\* with the same argument on the unchanged directory leaves the same content.
C25_BundleIdempotent ==
    bundle.builds >= 1 =>
        LET content == BundleFile(cert_dir)
            blocks == { i \in DOMAIN content : content[i].kind = "pem" }
        IN  /\ content[1] = SystemCa
            /\ \A i \in DOMAIN content : content[i] = SystemCa => i = 1
            /\ ~bundle.include_self_signed => content = << SystemCa >>
            /\ bundle.include_self_signed =>
                   /\ Cardinality(blocks) = Cardinality(CertFiles(cert_dir))
                   /\ \A f \in CertFiles(cert_dir) :
                          \E i \in blocks :
                              /\ << content[i] >> = cert_dir[f].content
                              /\ content[i - 1] = NameComment(cert_dir[f].name)
            /\ (bundle.builds >= 2
                /\ bundle.include_self_signed = bundle.previous_include) =>
                   content = bundle.previous

\* The bundle was built twice with the self-signed part from a directory
\* that holds a persisted certificate.
C25_Witness ==
    /\ bundle.builds >= 2
    /\ bundle.include_self_signed
    /\ bundle.previous_include
    /\ CertFiles(cert_dir) # {}

\* The places of an event in the orchestrator's log.
At(event) == { i \in DOMAIN orch.log : orch.log[i] = event }

Done(event) == At(event) # {}

\* C26: an exception in the endpoint negotiation phase or in the certificate
\* phase of run() does not abort the phases after it: when run() is over
\* after such a failure, the health monitor has been started.
C26_FailureDoesNotAbort ==
    (orch.pc = "done" /\ orch.failed \in {"websocket", "certificates"}) =>
        Done("HealthMonitor")

\* The phases of a run that found a device, in the order of the claim.
PhaseOrder ==
    << "Discovery", "snapshot", "EndpointNegotiation", "endpoint_config",
       "CertificateScan", "ca_bundle", "expiry_check", "certificate_report",
       "HealthMonitor", "status_loop" >>

\* C27: in a run whose discovery found a device the phases start in the
\* order Discovery, snapshot, EndpointNegotiation, endpoint configuration,
\* CertificateScan, CA bundle, expiry check, certificate report,
\* HealthMonitor, status loop: each is entered at most once and only after
\* the one before it was done, and the monitor is never started before the
\* certificate report was written.
C27_PhaseOrder ==
    /\ \A k \in DOMAIN PhaseOrder :
           /\ Cardinality(At(PhaseOrder[k])) <= 1
           /\ (k > 1 /\ Done(PhaseOrder[k])) =>
                  \E i \in At(PhaseOrder[k - 1]) :
                      \A j \in At(PhaseOrder[k]) : i < j
    /\ monitoring => Done("certificate_report")
    /\ Done("snapshot") => orch.cameras >= 1

\* A run that found a device has come to its status loop, the monitor
\* started.
C27_Witness ==
    /\ orch.cameras >= 1
    /\ Done("status_loop")
    /\ monitoring

\* C28: when the discovery finds no device, run() executes none of the
\* later phases (no endpoint negotiation, no certificate scan, no start of
\* the health monitor) and writes no discovery snapshot.
C28_NoDevicesNoPhases ==
    (Done("Discovery") /\ orch.cameras = 0) =>
        /\ \A event \in { "snapshot", "EndpointNegotiation", "endpoint_config",
                          "CertificateScan", "ca_bundle", "expiry_check",
                          "certificate_report", "pwa", "HealthMonitor",
                          "status_loop" } : ~Done(event)
        /\ ~monitoring
        /\ orch.pc \in {"finally", "done"}

\* A run whose discovery found nothing is over.
C28_Witness ==
    /\ orch.pc = "done"
    /\ Done("Discovery")
    /\ orch.cameras = 0

\* C29: on every exit path of run() after the components are built
\* (shutdown signal, no device found, a phase raising) the final save of the
\* health report is attempted exactly once, at the exit and not before, and
\* a failure of the save does not raise out of run(): run() raises only what
\* a phase raised.
C29_OneFinalSave ==
    /\ (orch.pc # "done") => ~Done("save_report")
    /\ (orch.pc = "done" /\ orch.components) =>
           /\ Cardinality(At("save_report")) = 1
           /\ At("save_report") = { Len(orch.log) }
           /\ orch.outcome = "raised" <=> orch.failed # "none"

\* run() returned after a shutdown signal although the final save failed.
C29_Witness ==
    /\ orch.pc = "done"
    /\ orch.signalled
    /\ Done("status_loop")
    /\ orch.save_failed
    /\ orch.outcome = "returned"

\* C30: after the shutdown signal has cleared the running flag, every loop
\* stops at the top of its next iteration: no round of the status loop and
\* no iteration of the metrics loop begins once the signal was handled.
C30_LoopsStopOnShutdown ==
    [][ orch.signalled =>
            (orch'.rounds = orch.rounds /\ clock' = clock) ]_vars

\* C31: while it runs the orchestrator starts the discovery again and again
\* after the initial discovery phase, until shutdown: a run that has been
\* through rounds of its status loop and is over has started the discovery
\* more than once.
C31_PeriodicRediscovery ==
    (orch.pc = "done" /\ orch.rounds >= 1) => Cardinality(At("Discovery")) >= 2

\* C32: for every Digest challenge and request, the response field of the
\* Authorization header is the RFC 2617 value computed from
\* HA1 = MD5(username:realm:password) and HA2 = MD5(method:uri), uri being
\* the URI of the request that is authenticated, which is also the header's
\* uri field: MD5(HA1:nonce:nc:cnonce:qop:HA2) when the challenge carries
\* qop, MD5(HA1:nonce:HA2) otherwise.
C32_DigestResponse ==
    digest.called =>
        LET HA1 == Md5(<< digest.username, digest.challenge.realm,
                          digest.password >>)
            HA2 == Md5(<< "GET", digest.request_uri >>)
        IN  /\ digest.uri = digest.request_uri
            /\ digest.response =
                   IF digest.challenge.qop # ""
                   THEN Md5(<< HA1, digest.challenge.nonce, digest.nc,
                               digest.cnonce, digest.challenge.qop, HA2 >>)
                   ELSE Md5(<< HA1, digest.challenge.nonce, HA2 >>)

\* C33: while one unit is waiting on a network operation, every other unit
\* that is ready can take a step: the waiting unit does not hold the event
\* loop.
C33_NoUnitBlocks ==
    \A u \in Units, v \in Units :
        (u # v /\ units.pc[u] = "network" /\ units.pc[v] = "ready") => CanStep

\* C34: a check function that raises or exceeds its timeout leaves the check
\* UNHEALTHY with error_message set (the exception text, or 'Health check
\* timed out'), counts as one more consecutive failure, and its loop goes on
\* to the sleep before its next iteration: it never ends the loop or the
\* monitoring.
C34_FailureIsUnhealthy ==
    [][\A c \in Registered :
          ( /\ check_loops.pc[c] = "check"
            /\ check_loops'.pc[c] # "check"
            /\ check_loops'.outcome[c] \in {"timeout", "raise"} )
          => /\ health_checks'[c].last_status = UNHEALTHY
             /\ health_checks'[c].error_message =
                    (IF check_loops'.outcome[c] = "timeout"
                     THEN "Health check timed out" ELSE "exception")
             /\ health_checks'[c].consecutive_failures =
                    health_checks[c].consecutive_failures + 1
             /\ check_loops'.pc[c] = "sleep"
             /\ monitoring']_vars

\* A check function failed again, after an earlier failure; its loop sleeps.
C34_Witness ==
    \E c \in Registered :
        /\ check_loops.outcome[c] \in {"timeout", "raise"}
        /\ check_loops.pc[c] = "sleep"
        /\ health_checks[c].last_status = UNHEALTHY
        /\ health_checks[c].consecutive_failures >= 2

\* The loop task of the registered check c stands at `where`.
LoopAt(c, where) == c \in Registered /\ check_loops.pc[c] = where

\* C35: while monitoring is on and the scheduling is fair, the loop of every
\* registered check runs its check again and again: it is infinitely often
\* about to run the check and infinitely often asleep after a run, whatever
\* the other checks return and also while a recovery is in progress. A loop
\* that ended would stay ended, so no loop ends.
C35_LoopsRunForever ==
    \A c \in CheckNames :
        /\ []<>(monitoring => (c \in Registered => LoopAt(c, "check")))
        /\ []<>(monitoring => (c \in Registered => LoopAt(c, "sleep")))

\* A check has run again while its own recovery was in progress.
C35_Witness ==
    \E c \in Registered :
        /\ InProgressKey(c)
        /\ recovery_in_progress[c]
        /\ health_checks[c].consecutive_failures > Retries
        /\ check_loops.pc[c] = "sleep"

\* C36: for every cpu, memory and disk usage the system-resources check
\* returns CRITICAL when one of the three is above 95%, DEGRADED when one is
\* above its threshold and none above 95%, and HEALTHY when none is above
\* its threshold.
C36_ResourceStatus ==
    resources.status # "none" =>
        LET usage == { resources.cpu_percent, resources.memory_percent,
                       resources.disk_percent }
            over == \/ resources.cpu_percent > CpuThreshold
                    \/ resources.memory_percent > MemoryThreshold
                    \/ resources.disk_percent > DiskThreshold
        IN  resources.status =
              IF \E p \in usage : p > CriticalPercent THEN CRITICAL
              ELSE IF over THEN DEGRADED
              ELSE HEALTHY

\* C37: a candidate is marked validated iff the handshake and the ping send
\* succeeded and then a reply arrived or the 2s wait elapsed with the socket
\* open; a candidate whose handshake failed stays unvalidated with its error
\* recorded, and the validation goes on with the remaining candidates and
\* devices.
C37_ValidatedIffAnswering ==
    ws.last.outcome # "none" =>
        /\ ws.last.validated <=>
               ws.last.outcome \in { "reply", "no_reply", "reply_close_failed" }
        /\ ws.last.outcome \in HandshakeFailures =>
               /\ ~ws.last.validated
               /\ ws.last.error # "None"
               /\ ws.pc # "raised"
               /\ ws.pc = "validating" \/ ws.camera = ws.cameras

\* The first candidate of camera 1 validated, the handshake of its last one
\* failed, and the validation goes on with camera 2.
C37_Witness ==
    /\ ws.last.outcome \in HandshakeFailures
    /\ ws.pc = "validating"
    /\ ws.camera = 2
    /\ ws.path = 1
    /\ ws.discovered_endpoints # << >>

\* C40: every endpoint written to websocket_config.json has validated = true,
\* so the endpoint-health check that reads the file returns HEALTHY (the
\* file has endpoints) or UNKNOWN (no endpoints, or no readable file), never
\* DEGRADED or UNHEALTHY.
C40_FileHoldsValidatedOnly ==
    /\ \A i \in DOMAIN ws.file.endpoints : ws.file.endpoints[i].validated
    /\ ws.status \in { "none", HEALTHY, UNKNOWN }
    /\ ws.status = HEALTHY => (ws.file.written /\ ws.file.endpoints # << >>)

\* Some candidates failed and some validated, the file was written and the
\* check found it HEALTHY.
C40_Witness ==
    /\ ws.file.written
    /\ ws.file.endpoints # << >>
    /\ Len(ws.file.endpoints) < ws.cameras * Len(CandidatesOf(1))
    /\ ws.status = HEALTHY

\* C38: an alert is not modified after it has been queued: whenever the
\* alert loop takes alerts off the queue to dispatch them, each carries the
\* action it was queued with, recovery_started.
C38_DispatchedAsQueued ==
    [][Len(alerts') < Len(alerts) =>
          \A i \in 1..(Len(alerts) - Len(alerts')) :
              alerts[i].action = NewAlert(alerts[i].id, alerts[i].check_name).action]_vars

\* C39: on one discovery engine the registry never shrinks: it holds every
\* address that was ever probed successfully, and the list a call returns is
\* a subset of the registry (so that a snapshot saved after a call can hold
\* devices that are absent from that call's result).
C39_RegistryNeverShrinks ==
    /\ [][DOMAIN discovered_cameras \subseteq DOMAIN discovered_cameras']_vars
    /\ [](DOMAIN latest \subseteq DOMAIN discovered_cameras)
    /\ [](disc_pc = "returned" => cameras \subseteq SavedCameras)

\* A call has returned without a device that an earlier call registered: a
\* snapshot saved now holds a device absent from the latest result.
C39_Witness ==
    /\ disc_pc = "returned"
    /\ \E d \in SavedCameras : \A found \in cameras : found.ip # d.ip

====
